---- MODULE Spec2Model ----
(***************************************************************************)
(* State-machine model of the BoxMeOut Stella contracts:                   *)
(*   - AMM            (contracts/boxmeout/src/amm.rs)                       *)
(*   - OracleManager  (contracts/boxmeout/src/oracle.rs)                    *)
(* Every exposed contract function is one action.  A call runs to          *)
(* completion; a panic aborts the invocation and the host discards every   *)
(* write made by it (storage and token balances alike).                    *)
(***************************************************************************)
EXTENDS Integers, Sequences, FiniteSets, TLC

(***************************************************************************)
(* Bounds of the model                                                     *)
(***************************************************************************)
\* largest seed / deposit / trade / LP amount tried in SpecAMM
MaxAmount == 4
\* token balance every user starts with in SpecAMM
InitBalance == 3
\* max_liquidity_cap handed to AMM::initialize in SpecAMM
LiquidityCap == 5
\* largest min_shares tried in SpecAMM
MaxMinShares == 2
\* buy_shares calls modelled per market
MaxTrades == 1
\* SpecScenario: the seed, the two trade sizes, the slippage floor tried, the
\* users' starting balance, the liquidity cap and the trades per market
ScenarioSeed == 1000
ScenarioTrade == 100
ScenarioLargeTrade == 500
ScenarioMinShares == 90
ScenarioBalance == 1600
ScenarioCap == 1100
ScenarioTrades == 2
\* token balance every user starts with in SpecFrame
FrameBalance == 4
\* token balance every fee source starts with in SpecTreasury
TreasuryFunds == 3
\* largest amount handed to deposit_fees and emergency_withdraw
MaxFee == 3
\* deposits are offered while the fees collected so far are below this total
MaxTotalFees == 3
\* the number of creation fees every creator can pay in SpecFactory
AffordableMarkets == 2
\* largest closing_time handed to create_market; resolution_time goes one further
MaxClosingTime == 1
\* token balance of every account in SpecSeed, which is above LiquidityCap
SeedBalance == 6
\* last ledger timestamp reached by the clock
MaxTime == 1
\* largest required_consensus handed to OracleManager::initialize
MaxThreshold == 2

(***************************************************************************)
(* Identities                                                              *)
(***************************************************************************)
Users == {"u1", "u2"}
Markets == {"m1"}
\* the AMM contract's own address in the token ledger
AmmAddress == "amm"
NoAddress == "none"

(***************************************************************************)
(* Keyed storage helpers: a persistent map is a function whose DOMAIN is   *)
(* the set of keys present.                                                *)
(***************************************************************************)
EmptyMap == <<>>
Has(f, key) == key \in DOMAIN f
Put(f, key, v) == [x \in (DOMAIN f) \cup {key} |-> IF x = key THEN v ELSE f[x]]
Remove(f, key) == [x \in (DOMAIN f) \ {key} |-> f[x]]
GetOr(f, key, d) == IF key \in DOMAIN f THEN f[key] ELSE d

RECURSIVE SumOver(_, _)
SumOver(f, S) ==
  IF S = {} THEN 0
  ELSE LET x == CHOOSE y \in S : TRUE IN f[x] + SumOver(f, S \ {x})

VARIABLES
  now,          \* env.ledger().timestamp()
  balance,      \* USDC token ledger: address -> amount
  amm_cfg,      \* AMM configuration keys written by initialize
  pools,        \* market_id -> [yes_reserve, no_reserve, k, lp_supply]; key present = pool_exists
  lp_tokens,    \* <<market_id, provider>> -> LP balance; key present = entry stored
  user_shares,  \* <<user, market_id, outcome>> -> shares held
  trade_count,  \* market_id -> trades recorded
  trades,       \* <<market_id, trade_index>> -> trade record
  oracle,       \* OracleManager storage, one field per key family
  treasury,     \* Treasury storage, one field per key family, and the token ledger it uses
  factory,      \* MarketFactory storage, one field per key family
  last          \* the last call made: operation, arguments, result, return value

vars == <<now, balance, amm_cfg, pools, lp_tokens, user_shares, trade_count, trades, oracle,
          treasury, factory, last>>

\* the part of the state a host rollback restores
ammVars == <<balance, amm_cfg, pools, lp_tokens, user_shares, trade_count, trades>>

(***************************************************************************)
(* AMM storage as one value, threaded through a handler                    *)
(***************************************************************************)
AmmStore ==
  [balance |-> balance, amm_cfg |-> amm_cfg, pools |-> pools, lp_tokens |-> lp_tokens,
   user_shares |-> user_shares, trade_count |-> trade_count, trades |-> trades]

NoCfg == [initialized |-> FALSE, admin |-> NoAddress, max_liquidity_cap |-> 0,
          slippage_protection |-> 0, trading_fee |-> 0]

\* outcome of running a handler: did it panic, the reason, the value returned,
\* and the storage as written up to the point where it stopped
Panic(reason, st) == [panic |-> TRUE, result |-> reason, ret |-> <<>>, st |-> st]
Return(ret, st) == [panic |-> FALSE, result |-> "ok", ret |-> ret, st |-> st]

\* token::Client::transfer: panics when the payer's balance is below the amount
CanTransfer(bal, from, amount) == bal[from] >= amount
Transfer(bal, from, to, amount) ==
  [bal EXCEPT ![from] = bal[from] - amount, ![to] = bal[to] + amount]

(***************************************************************************)
(* AMM program constants                                                   *)
(***************************************************************************)
\* trading fee in basis points stored by initialize (and buy_shares' default)
TradingFeeBps == 20
\* slippage_protection default stored by initialize
SlippageProtectionBps == 200
\* basis-point denominator of the fee computation
BpsDenominator == 10000

(***************************************************************************)
(* AMM::initialize                                                         *)
(***************************************************************************)
AMM_initialize(st, admin, max_liquidity_cap) ==
  Return(<<>>,
    [st EXCEPT !.amm_cfg = [initialized |-> TRUE, admin |-> admin,
                            max_liquidity_cap |-> max_liquidity_cap,
                            slippage_protection |-> SlippageProtectionBps,
                            trading_fee |-> TradingFeeBps]])

(***************************************************************************)
(* AMM::create_pool                                                        *)
(***************************************************************************)
\* faulty variant of create_pool_reserves: both reserves get the rounded-down half,
\* so the odd unit of the seed is in neither
create_pool_reserves_even_split(initial_liquidity) ==
  [yes_reserve |-> initial_liquidity \div 2, no_reserve |-> initial_liquidity \div 2,
   k |-> (initial_liquidity \div 2) * (initial_liquidity \div 2),
   lp_supply |-> initial_liquidity]

\* the 50/50 split of the seed and the values stored for the new pool
create_pool_reserves(initial_liquidity) ==
  LET yes_reserve == initial_liquidity \div 2
      no_reserve == initial_liquidity - yes_reserve
  IN [yes_reserve |-> yes_reserve, no_reserve |-> no_reserve,
      k |-> yes_reserve * no_reserve, lp_supply |-> initial_liquidity]

\* faulty variant of create_pool: the transfer's failure is returned as an error value
\* instead of aborting, so the pool written before it stays
create_pool_keeps_writes(st, creator, market_id, initial_liquidity) ==
  IF initial_liquidity = 0 THEN Panic("InvalidAmount", st)
  ELSE IF Has(st.pools, market_id) THEN Panic("AlreadyExists", st)
  ELSE IF ~st.amm_cfg.initialized THEN Panic("NotInitialized", st)
  ELSE
    LET written == [st EXCEPT
                      !.pools = Put(st.pools, market_id,
                                    [yes_reserve |-> initial_liquidity \div 2,
                                     no_reserve |-> initial_liquidity - initial_liquidity \div 2,
                                     k |-> (initial_liquidity \div 2)
                                           * (initial_liquidity - initial_liquidity \div 2),
                                     lp_supply |-> initial_liquidity]),
                      !.lp_tokens = Put(st.lp_tokens, <<market_id, creator>>, initial_liquidity)]
    IN IF ~CanTransfer(written.balance, creator, initial_liquidity)
       THEN [panic |-> FALSE, result |-> "InsufficientBalance", ret |-> <<>>, st |-> written]
       ELSE Return(<<>>,
              [written EXCEPT !.balance =
                 Transfer(written.balance, creator, AmmAddress, initial_liquidity)])

\* faulty variant of create_pool: the test for an existing pool is missing, so a
\* second call writes the pool anew
create_pool_overwrites(st, creator, market_id, initial_liquidity) ==
  IF initial_liquidity = 0 THEN Panic("InvalidAmount", st)
  ELSE IF ~st.amm_cfg.initialized THEN Panic("NotInitialized", st)
  ELSE
    LET written == [st EXCEPT
                      !.pools = Put(st.pools, market_id, create_pool_reserves(initial_liquidity)),
                      !.lp_tokens = Put(st.lp_tokens, <<market_id, creator>>, initial_liquidity)]
    IN IF ~CanTransfer(written.balance, creator, initial_liquidity)
       THEN Panic("InsufficientBalance", written)
       ELSE Return(<<>>,
              [written EXCEPT !.balance =
                 Transfer(written.balance, creator, AmmAddress, initial_liquidity)])

create_pool(st, creator, market_id, initial_liquidity) ==
  IF initial_liquidity = 0 THEN Panic("InvalidAmount", st)
  ELSE IF Has(st.pools, market_id) THEN Panic("AlreadyExists", st)
  ELSE IF ~st.amm_cfg.initialized THEN Panic("NotInitialized", st)
  ELSE
    LET written == [st EXCEPT
                      !.pools = Put(st.pools, market_id, create_pool_reserves(initial_liquidity)),
                      !.lp_tokens = Put(st.lp_tokens, <<market_id, creator>>, initial_liquidity)]
    IN IF ~CanTransfer(written.balance, creator, initial_liquidity)
       THEN Panic("InsufficientBalance", written)
       ELSE Return(<<>>,
              [written EXCEPT !.balance =
                 Transfer(written.balance, creator, AmmAddress, initial_liquidity)])

(***************************************************************************)
(* crate::helpers: the pool, share and trade accessors buy_shares calls     *)
(***************************************************************************)
pool_exists(st, market_id) == Has(st.pools, market_id)

get_pool_reserves(st, market_id) ==
  <<st.pools[market_id].yes_reserve, st.pools[market_id].no_reserve>>

\* constant-product payout: Y is the reserve of the outcome bought, X the other
calculate_shares_out(yes_reserve, no_reserve, outcome, amount_in) ==
  LET Y == IF outcome = 1 THEN yes_reserve ELSE no_reserve
      X == IF outcome = 1 THEN no_reserve ELSE yes_reserve
  IN (amount_in * Y) \div (X + amount_in)

\* stores both reserves and the recomputed product
set_pool_reserves(st, market_id, new_yes_reserve, new_no_reserve) ==
  [st EXCEPT !.pools[market_id].yes_reserve = new_yes_reserve,
             !.pools[market_id].no_reserve = new_no_reserve,
             !.pools[market_id].k = new_yes_reserve * new_no_reserve]

get_user_shares(st, user, market_id, outcome) ==
  GetOr(st.user_shares, <<user, market_id, outcome>>, 0)

set_user_shares(st, user, market_id, outcome, shares) ==
  [st EXCEPT !.user_shares = Put(st.user_shares, <<user, market_id, outcome>>, shares)]

\* bumps the market's trade counter; the new count is the trade index
increment_trade_count(st, market_id) ==
  [st EXCEPT !.trade_count = Put(st.trade_count, market_id,
                                 GetOr(st.trade_count, market_id, 0) + 1)]

(***************************************************************************)
(* AMM::buy_shares                                                         *)
(***************************************************************************)
\* faulty variant of trading_fee: the rate is applied as a percentage, not in basis points
trading_fee_percent(st, amount) == (amount * TradingFeeBps) \div 100

\* faulty variant of trading_fee: the fee is rounded up instead of down
trading_fee_rounded_up(st, amount) ==
  (amount * TradingFeeBps + (BpsDenominator - 1)) \div BpsDenominator

\* fee charged on a gross amount
trading_fee(st, amount) ==
  LET trading_fee_bps == IF st.amm_cfg.initialized THEN st.amm_cfg.trading_fee
                         ELSE TradingFeeBps
  IN (amount * trading_fee_bps) \div BpsDenominator

\* faulty variant of buy_new_reserves: the two sides of the update are swapped
buy_new_reserves_swapped(yes_reserve, no_reserve, outcome, shares_out, amount_after_fee) ==
  IF outcome = 1
  THEN <<yes_reserve + amount_after_fee, no_reserve - shares_out>>
  ELSE <<yes_reserve - shares_out, no_reserve + amount_after_fee>>

\* reserves after a buy of shares_out paid with amount_after_fee
buy_new_reserves(yes_reserve, no_reserve, outcome, shares_out, amount_after_fee) ==
  IF outcome = 1
  THEN <<yes_reserve - shares_out, no_reserve + amount_after_fee>>
  ELSE <<yes_reserve + amount_after_fee, no_reserve - shares_out>>

\* faulty variant of trade_key: the key leaves out the trade index
trade_key_without_index(market_id, trade_index) == <<market_id, 1>>

\* the storage key of a trade record
trade_key(market_id, trade_index) == <<market_id, trade_index>>

buy_shares(st, t, buyer, market_id, outcome, amount, min_shares) ==
  IF outcome > 1 THEN Panic("InvalidOutcome", st)
  ELSE IF amount = 0 THEN Panic("InvalidAmount", st)
  ELSE IF ~pool_exists(st, market_id) THEN Panic("PoolNotFound", st)
  ELSE
    LET reserves == get_pool_reserves(st, market_id)
        yes_reserve == reserves[1]
        no_reserve == reserves[2]
        fee == trading_fee(st, amount)
        amount_after_fee == amount - fee
        shares_out == calculate_shares_out(yes_reserve, no_reserve, outcome, amount_after_fee)
    IN IF shares_out < min_shares THEN Panic("SlippageExceeded", st)
       ELSE IF ~CanTransfer(st.balance, buyer, amount) THEN Panic("InsufficientBalance", st)
       ELSE
         LET paid == [st EXCEPT !.balance = Transfer(st.balance, buyer, AmmAddress, amount)]
             new_reserves == buy_new_reserves(yes_reserve, no_reserve, outcome,
                                              shares_out, amount_after_fee)
             reserved == set_pool_reserves(paid, market_id, new_reserves[1], new_reserves[2])
             current_shares == get_user_shares(reserved, buyer, market_id, outcome)
             shared == set_user_shares(reserved, buyer, market_id, outcome,
                                       current_shares + shares_out)
             counted == increment_trade_count(shared, market_id)
             trade_index == counted.trade_count[market_id]
             recorded == [counted EXCEPT !.trades =
                            Put(counted.trades, trade_key(market_id, trade_index),
                                [buyer |-> buyer, outcome |-> outcome, shares_out |-> shares_out,
                                 amount |-> amount, fee |-> fee, timestamp |-> t])]
         IN Return(<<shares_out>>, recorded)

(***************************************************************************)
(* AMM::add_liquidity                                                      *)
(***************************************************************************)
\* faulty variant of lp_tokens_to_mint: the deposit is priced against the YES
\* reserve alone instead of the whole pool
lp_tokens_to_mint_by_yes_reserve(liquidity_amount, current_lp_supply, yes_reserve, no_reserve) ==
  (liquidity_amount * current_lp_supply) \div yes_reserve

\* faulty variant of lp_tokens_to_mint: one LP token per unit deposited, whatever
\* the pool holds
lp_tokens_to_mint_one_to_one(liquidity_amount, current_lp_supply, yes_reserve, no_reserve) ==
  liquidity_amount

\* LP tokens minted for a deposit
lp_tokens_to_mint(liquidity_amount, current_lp_supply, yes_reserve, no_reserve) ==
  (liquidity_amount * current_lp_supply) \div (yes_reserve + no_reserve)

\* faulty variant of recomputed_k: the YES reserve is multiplied by itself
recomputed_k_yes_twice(new_yes_reserve, new_no_reserve) == new_yes_reserve * new_yes_reserve

\* k as add_liquidity and remove_liquidity store it after changing the reserves
recomputed_k(new_yes_reserve, new_no_reserve) == new_yes_reserve * new_no_reserve

\* faulty variant of exceeds_max_liquidity_cap: the cap is not enforced
exceeds_max_liquidity_cap_unchecked(new_total_liquidity, max_liquidity_cap) == FALSE

\* the cap test on the pool's liquidity after the deposit
exceeds_max_liquidity_cap(new_total_liquidity, max_liquidity_cap) ==
  new_total_liquidity > max_liquidity_cap

\* faulty variant of add_new_reserves: the whole deposit is credited to both reserves
add_new_reserves_credited_twice(liquidity_amount, yes_reserve, no_reserve) ==
  <<yes_reserve + liquidity_amount, no_reserve + liquidity_amount>>

\* reserves after a deposit split in the pool's ratio
add_new_reserves(liquidity_amount, yes_reserve, no_reserve) ==
  LET total_liquidity == yes_reserve + no_reserve
      yes_addition == (liquidity_amount * yes_reserve) \div total_liquidity
      no_addition == liquidity_amount - yes_addition
  IN <<yes_reserve + yes_addition, no_reserve + no_addition>>

add_liquidity(st, lp_provider, market_id, liquidity_amount) ==
  IF liquidity_amount = 0 THEN Panic("InvalidAmount", st)
  ELSE IF ~Has(st.pools, market_id) THEN Panic("PoolNotFound", st)
  ELSE
    LET pool == st.pools[market_id]
        yes_reserve == pool.yes_reserve
        no_reserve == pool.no_reserve
        current_lp_supply == pool.lp_supply
        minted == lp_tokens_to_mint(liquidity_amount, current_lp_supply, yes_reserve, no_reserve)
    IN IF minted = 0 THEN Panic("AmountTooSmall", st)
       ELSE
         LET new_reserves == add_new_reserves(liquidity_amount, yes_reserve, no_reserve)
             new_yes_reserve == new_reserves[1]
             new_no_reserve == new_reserves[2]
             new_k == recomputed_k(new_yes_reserve, new_no_reserve)
         IN IF ~st.amm_cfg.initialized THEN Panic("NotInitialized", st)
            ELSE IF exceeds_max_liquidity_cap(new_yes_reserve + new_no_reserve,
                                              st.amm_cfg.max_liquidity_cap)
            THEN Panic("MaxLiquidityExceeded", st)
            ELSE
              LET current_lp_balance == GetOr(st.lp_tokens, <<market_id, lp_provider>>, 0)
                  written == [st EXCEPT
                    !.pools[market_id] = [yes_reserve |-> new_yes_reserve,
                                          no_reserve |-> new_no_reserve,
                                          k |-> new_k,
                                          lp_supply |-> current_lp_supply + minted],
                    !.lp_tokens = Put(st.lp_tokens, <<market_id, lp_provider>>,
                                      current_lp_balance + minted)]
              IN IF ~CanTransfer(written.balance, lp_provider, liquidity_amount)
                 THEN Panic("InsufficientBalance", written)
                 ELSE Return(<<minted>>,
                        [written EXCEPT !.balance =
                           Transfer(written.balance, lp_provider, AmmAddress, liquidity_amount)])

(***************************************************************************)
(* AMM::remove_liquidity                                                   *)
(***************************************************************************)
\* faulty variant of pool_drained: the minimum-liquidity test is missing
pool_drained_unchecked(new_yes_reserve, new_no_reserve) == FALSE

\* would the withdrawal leave a reserve empty
pool_drained(new_yes_reserve, new_no_reserve) == new_yes_reserve = 0 \/ new_no_reserve = 0

\* faulty variant of burn_lp_tokens: an emptied balance is stored as zero, not removed
burn_lp_tokens_keeps_entry(lp, key, lp_balance, burned) == Put(lp, key, lp_balance - burned)

\* LP balance entry after burning: the key is removed when nothing is left
burn_lp_tokens(lp, key, lp_balance, burned) ==
  IF lp_balance - burned = 0 THEN Remove(lp, key) ELSE Put(lp, key, lp_balance - burned)

remove_liquidity(st, lp_provider, market_id, burned) ==
  IF burned = 0 THEN Panic("InvalidAmount", st)
  ELSE IF ~Has(st.pools, market_id) THEN Panic("PoolNotFound", st)
  ELSE
    LET lp_balance == GetOr(st.lp_tokens, <<market_id, lp_provider>>, 0)
        pool == st.pools[market_id]
        yes_reserve == pool.yes_reserve
        no_reserve == pool.no_reserve
        current_lp_supply == pool.lp_supply
    IN IF lp_balance < burned THEN Panic("InsufficientLpTokens", st)
       ELSE
         LET yes_amount == (burned * yes_reserve) \div current_lp_supply
             no_amount == (burned * no_reserve) \div current_lp_supply
             new_yes_reserve == yes_reserve - yes_amount
             new_no_reserve == no_reserve - no_amount
         IN IF yes_amount = 0 \/ no_amount = 0 THEN Panic("AmountTooSmall", st)
            ELSE IF pool_drained(new_yes_reserve, new_no_reserve)
            THEN Panic("PoolDrainForbidden", st)
            ELSE
              LET written == [st EXCEPT
                    !.pools[market_id] = [yes_reserve |-> new_yes_reserve,
                                          no_reserve |-> new_no_reserve,
                                          k |-> recomputed_k(new_yes_reserve, new_no_reserve),
                                          lp_supply |-> current_lp_supply - burned],
                    !.lp_tokens = burn_lp_tokens(st.lp_tokens, <<market_id, lp_provider>>,
                                                 lp_balance, burned)]
                  total_withdrawal == yes_amount + no_amount
              IN IF ~st.amm_cfg.initialized THEN Panic("NotInitialized", written)
                 ELSE IF ~CanTransfer(written.balance, AmmAddress, total_withdrawal)
                 THEN Panic("InsufficientBalance", written)
                 ELSE Return(<<yes_amount, no_amount>>,
                        [written EXCEPT !.balance =
                           Transfer(written.balance, AmmAddress, lp_provider, total_withdrawal)])

(***************************************************************************)
(* OracleManager program constants                                         *)
(***************************************************************************)
\* register_oracle refuses once this many oracles are counted
MaxOracles == 10
\* accuracy score a new oracle starts with
InitialAccuracy == 100

\* OracleManager storage before initialize: no key is present
NoOracleStore ==
  [admin |-> EmptyMap,               \* ADMIN_KEY: present once set (key "admin")
   required_consensus |-> EmptyMap,  \* REQUIRED_CONSENSUS_KEY (key "threshold")
   oracle_count |-> EmptyMap,        \* ORACLE_COUNT_KEY (key "count")
   oracles |-> EmptyMap,             \* oracle -> [registered, name, accuracy, timestamp]
   mkt_res_time |-> EmptyMap,        \* market_id -> resolution_time
   attest_yes |-> EmptyMap,          \* market_id -> count of YES attestations
   attest_no |-> EmptyMap,           \* market_id -> count of NO attestations
   vote |-> EmptyMap,                \* <<market_id, oracle>> -> outcome voted
   attestation |-> EmptyMap,         \* <<market_id, oracle>> -> Attestation
   voters |-> EmptyMap]              \* market_id -> sequence of oracles that voted

(***************************************************************************)
(* OracleManager::initialize                                               *)
(***************************************************************************)
OracleManager_initialize(st, signer, admin, required_consensus) ==
  IF signer # admin THEN Panic("Unauthorized", st)
  ELSE Return(<<>>,
         [st EXCEPT !.admin = Put(st.admin, "admin", admin),
                    !.required_consensus = Put(st.required_consensus, "threshold",
                                               required_consensus),
                    !.oracle_count = Put(st.oracle_count, "count", 0)])

(***************************************************************************)
(* OracleManager::register_oracle                                          *)
(***************************************************************************)
\* faulty variant of admin_authorized: the stored admin's authorization is not required
admin_authorized_unchecked(st, signer) == TRUE

\* admin.require_auth() on the stored admin: the call carries its authorization
admin_authorized(st, signer) == signer = st.admin["admin"]

\* the limit test on the stored counter
oracle_limit_reached(oracle_count) == oracle_count >= MaxOracles

register_oracle(st, t, signer, oracle_id, oracle_name) ==
  IF ~Has(st.admin, "admin") THEN Panic("NotInitialized", st)
  ELSE IF ~admin_authorized(st, signer) THEN Panic("Unauthorized", st)
  ELSE
    LET oracle_count == GetOr(st.oracle_count, "count", 0)
    IN IF oracle_limit_reached(oracle_count) THEN Panic("LimitReached", st)
       ELSE IF Has(st.oracles, oracle_id) THEN Panic("AlreadyRegistered", st)
       ELSE Return(<<>>,
              [st EXCEPT
                 !.oracles = Put(st.oracles, oracle_id,
                                 [registered |-> TRUE, name |-> oracle_name,
                                  accuracy |-> InitialAccuracy, timestamp |-> t]),
                 !.oracle_count = Put(st.oracle_count, "count", oracle_count + 1)])

(***************************************************************************)
(* OracleManager::register_market                                          *)
(***************************************************************************)
\* faulty variant of reset_attestation_counts: only the YES counter is written
reset_attestation_counts_yes_only(st, market_id) ==
  [st EXCEPT !.attest_yes = Put(st.attest_yes, market_id, 0)]

\* both per-outcome counters of the market are written as zero
reset_attestation_counts(st, market_id) ==
  [st EXCEPT !.attest_yes = Put(st.attest_yes, market_id, 0),
             !.attest_no = Put(st.attest_no, market_id, 0)]

register_market(st, signer, market_id, resolution_time) ==
  IF ~Has(st.admin, "admin") THEN Panic("NotInitialized", st)
  ELSE IF ~admin_authorized(st, signer) THEN Panic("Unauthorized", st)
  ELSE Return(<<>>,
         reset_attestation_counts(
           [st EXCEPT !.mkt_res_time = Put(st.mkt_res_time, market_id, resolution_time)],
           market_id))

(***************************************************************************)
(* OracleManager::get_market_resolution_time / get_attestation_counts /    *)
(* get_attestation                                                         *)
(***************************************************************************)
get_attestation_counts(st, market_id) ==
  <<GetOr(st.attest_yes, market_id, 0), GetOr(st.attest_no, market_id, 0)>>

(***************************************************************************)
(* OracleManager::submit_attestation                                       *)
(***************************************************************************)
\* faulty variant of already_attested: the duplicate check is missing
already_attested_unchecked(st, market_id, oracle_id) == FALSE

\* has the oracle already voted on the market
already_attested(st, market_id, oracle_id) == Has(st.vote, <<market_id, oracle_id>>)

\* faulty variant of count_attestation: the counter keys leave out the market id, so
\* the attestation is counted for every registered market
count_attestation_all_markets(st, market_id, attestation_result) ==
  IF attestation_result = 1
  THEN [st EXCEPT !.attest_yes = [m \in DOMAIN st.attest_yes |-> st.attest_yes[m] + 1]]
  ELSE [st EXCEPT !.attest_no = [m \in DOMAIN st.attest_no |-> st.attest_no[m] + 1]]

\* the per-outcome counters after one more attestation
count_attestation(st, market_id, attestation_result) ==
  IF attestation_result = 1
  THEN [st EXCEPT !.attest_yes =
          Put(st.attest_yes, market_id, GetOr(st.attest_yes, market_id, 0) + 1)]
  ELSE [st EXCEPT !.attest_no =
          Put(st.attest_no, market_id, GetOr(st.attest_no, market_id, 0) + 1)]

\* faulty variant of too_early: the resolution time itself is still refused
too_early_inclusive(current_time, resolution_time) == current_time <= resolution_time

\* the time guard: the ledger time is before the market's resolution time
too_early(current_time, resolution_time) == current_time < resolution_time

\* faulty variant of submit_attestation: the outcome is validated before the market
\* and the time
submit_attestation_outcome_first(st, t, oracle_id, market_id, attestation_result) ==
  IF ~(Has(st.oracles, oracle_id) /\ st.oracles[oracle_id].registered)
  THEN Panic("NotRegistered", st)
  ELSE IF attestation_result > 1 THEN Panic("InvalidOutcome", st)
  ELSE IF ~Has(st.mkt_res_time, market_id) THEN Panic("MarketNotRegistered", st)
  ELSE IF too_early(t, st.mkt_res_time[market_id]) THEN Panic("TooEarly", st)
  ELSE IF already_attested(st, market_id, oracle_id) THEN Panic("DuplicateAttestation", st)
  ELSE
    LET stored == [st EXCEPT
          !.vote = Put(st.vote, <<market_id, oracle_id>>, attestation_result),
          !.attestation = Put(st.attestation, <<market_id, oracle_id>>,
                              [attestor |-> oracle_id, outcome |-> attestation_result,
                               timestamp |-> t]),
          !.voters = Put(st.voters, market_id,
                         Append(GetOr(st.voters, market_id, <<>>), oracle_id))]
    IN Return(<<>>, count_attestation(stored, market_id, attestation_result))

submit_attestation(st, t, oracle_id, market_id, attestation_result) ==
  IF ~(Has(st.oracles, oracle_id) /\ st.oracles[oracle_id].registered)
  THEN Panic("NotRegistered", st)
  ELSE IF ~Has(st.mkt_res_time, market_id) THEN Panic("MarketNotRegistered", st)
  ELSE IF too_early(t, st.mkt_res_time[market_id]) THEN Panic("TooEarly", st)
  ELSE IF attestation_result > 1 THEN Panic("InvalidOutcome", st)
  ELSE IF already_attested(st, market_id, oracle_id) THEN Panic("DuplicateAttestation", st)
  ELSE
    LET stored == [st EXCEPT
          !.vote = Put(st.vote, <<market_id, oracle_id>>, attestation_result),
          !.attestation = Put(st.attestation, <<market_id, oracle_id>>,
                              [attestor |-> oracle_id, outcome |-> attestation_result,
                               timestamp |-> t]),
          !.voters = Put(st.voters, market_id,
                         Append(GetOr(st.voters, market_id, <<>>), oracle_id))]
    IN Return(<<>>, count_attestation(stored, market_id, attestation_result))

(***************************************************************************)
(* OracleManager::check_consensus                                          *)
(***************************************************************************)
\* the tally loop: <<yes_votes, no_votes>> over the voter list
RECURSIVE tally_votes(_, _, _)
tally_votes(st, market_id, voters) ==
  IF voters = <<>> THEN <<0, 0>>
  ELSE LET rest == tally_votes(st, market_id, Tail(voters))
           vote == GetOr(st.vote, <<market_id, Head(voters)>>, 0)
       IN IF vote = 1 THEN <<rest[1] + 1, rest[2]>> ELSE <<rest[1], rest[2] + 1>>

\* faulty variant of consensus_of: a side at the threshold wins a tie
consensus_of_tie_wins(yes_votes, no_votes, threshold) ==
  IF yes_votes >= threshold /\ yes_votes >= no_votes THEN <<TRUE, 1>>
  ELSE IF no_votes >= threshold /\ no_votes >= yes_votes THEN <<TRUE, 0>>
  ELSE <<FALSE, 0>>

\* faulty variant of consensus_of: the branch that lets NO win is missing
consensus_of_yes_only(yes_votes, no_votes, threshold) ==
  IF yes_votes >= threshold /\ yes_votes > no_votes THEN <<TRUE, 1>>
  ELSE <<FALSE, 0>>

\* the comparison of the two tallies against the threshold
consensus_of(yes_votes, no_votes, threshold) ==
  IF yes_votes >= threshold /\ yes_votes > no_votes THEN <<TRUE, 1>>
  ELSE IF no_votes >= threshold /\ no_votes > yes_votes THEN <<TRUE, 0>>
  ELSE IF yes_votes >= threshold /\ no_votes >= threshold /\ yes_votes = no_votes
  THEN <<FALSE, 0>>
  ELSE <<FALSE, 0>>

check_consensus(st, market_id) ==
  LET voters == GetOr(st.voters, market_id, <<>>)
      threshold == GetOr(st.required_consensus, "threshold", 0)
  IN IF Len(voters) < threshold THEN <<FALSE, 0>>
     ELSE LET votes == tally_votes(st, market_id, voters)
          IN consensus_of(votes[1], votes[2], threshold)

(***************************************************************************)
(* Treasury program constants                                              *)
(***************************************************************************)
\* the default distribution stored by initialize
DefaultPlatformPct == 50
DefaultLeaderboardPct == 30
DefaultCreatorPct == 20
\* the denominator of the fee ratios
PctDenominator == 100
\* a u32 is two 16-bit halves: the number of values of one half
HalfWord == 65536

\* the Treasury contract's own address in the token ledger
TreasuryAddress == "treasury"

\* Treasury storage before initialize: no key is present; the token ledger
\* holds every fee source's funds
NoTreasuryStore ==
  [admin |-> EmptyMap,          \* ADMIN_KEY: present once set (key "admin")
   fees |-> EmptyMap,           \* platform_fees, leaderboard_fees, creator_fees, total_fees
   distribution |-> EmptyMap,   \* DISTRIBUTION_KEY -> FeeRatios (key "distribution")
   usdc |-> [a \in Users \cup {TreasuryAddress} |->
               IF a = TreasuryAddress THEN 0 ELSE TreasuryFunds]]

\* token::Client::transfer of an i128 amount: panics on a negative amount and
\* when the payer's balance is below the amount
CanTransferToken(bal, from, amount) == amount >= 0 /\ bal[from] >= amount

\* division of i128 values, truncating toward zero
TruncDiv(a, b) == IF a >= 0 THEN a \div b ELSE -((-a) \div b)

(***************************************************************************)
(* Treasury::initialize                                                    *)
(***************************************************************************)
Treasury_initialize(st, signer, admin) ==
  IF Has(st.admin, "admin") THEN Panic("AlreadyInitialized", st)
  ELSE IF signer # admin THEN Panic("Unauthorized", st)
  ELSE Return(<<>>,
         [st EXCEPT
            !.admin = Put(st.admin, "admin", admin),
            !.fees = [key \in {"platform_fees", "leaderboard_fees", "creator_fees",
                               "total_fees"} |-> 0],
            !.distribution = Put(st.distribution, "distribution",
                                 [platform |-> DefaultPlatformPct,
                                  leaderboard |-> DefaultLeaderboardPct,
                                  creator |-> DefaultCreatorPct])])

(***************************************************************************)
(* Treasury::set_fee_distribution                                          *)
(***************************************************************************)
\* whether a + b + c leaves the u32 range, computed on the 16-bit halves; the addends are
\* not negative, so the sum of the first two leaves the range only if the sum of all does
u32_sum_overflows(a, b, c) ==
  LET high == (a \div HalfWord) + (b \div HalfWord) + (c \div HalfWord)
      low == (a % HalfWord) + (b % HalfWord) + (c % HalfWord)
  IN high + (low \div HalfWord) >= HalfWord

\* faulty variant of ratios_rejected: only a sum above 100 is refused
ratios_rejected_above_only(platform_fee_pct, leaderboard_fee_pct, creator_fee_pct) ==
  \/ platform_fee_pct > PctDenominator
  \/ leaderboard_fee_pct > PctDenominator
  \/ creator_fee_pct > PctDenominator
  \/ platform_fee_pct + leaderboard_fee_pct + creator_fee_pct > PctDenominator

\* the validation of the three ratios: the sum differs from 100 (a ratio above 100 alone
\* makes the sum of the three differ from 100)
ratios_rejected(platform_fee_pct, leaderboard_fee_pct, creator_fee_pct) ==
  \/ platform_fee_pct > PctDenominator
  \/ leaderboard_fee_pct > PctDenominator
  \/ creator_fee_pct > PctDenominator
  \/ platform_fee_pct + leaderboard_fee_pct + creator_fee_pct # PctDenominator

\* the u32 additions are overflow-checked: a sum that leaves the u32 range aborts the
\* invocation
set_fee_distribution(st, signer, platform_fee_pct, leaderboard_fee_pct, creator_fee_pct) ==
  IF ~Has(st.admin, "admin") THEN Panic("NotInitialized", st)
  ELSE IF signer # st.admin["admin"] THEN Panic("Unauthorized", st)
  ELSE IF u32_sum_overflows(platform_fee_pct, leaderboard_fee_pct, creator_fee_pct)
  THEN Panic("Overflow", st)
  ELSE IF ratios_rejected(platform_fee_pct, leaderboard_fee_pct, creator_fee_pct)
  THEN Panic("InvalidRatios", st)
  ELSE Return(<<>>,
         [st EXCEPT !.distribution =
            Put(st.distribution, "distribution",
                [platform |-> platform_fee_pct, leaderboard |-> leaderboard_fee_pct,
                 creator |-> creator_fee_pct])])

(***************************************************************************)
(* Treasury::deposit_fees                                                  *)
(***************************************************************************)
\* update_pool_balance: adds delta to the pool stored under key
update_pool_balance(st, key, delta) ==
  [st EXCEPT !.fees = Put(st.fees, key, GetOr(st.fees, key, 0) + delta)]

\* faulty variant of fee_shares: the creator share is computed from its ratio like the
\* other two, so the rounding dust is in no pool
fee_shares_all_rounded(amount, ratios) ==
  [platform |-> TruncDiv(amount * ratios.platform, PctDenominator),
   leaderboard |-> TruncDiv(amount * ratios.leaderboard, PctDenominator),
   creator |-> TruncDiv(amount * ratios.creator, PctDenominator)]

\* the split of a deposit over the three pools
fee_shares(amount, ratios) ==
  LET platform_share == TruncDiv(amount * ratios.platform, PctDenominator)
      leaderboard_share == TruncDiv(amount * ratios.leaderboard, PctDenominator)
  IN [platform |-> platform_share, leaderboard |-> leaderboard_share,
      creator |-> amount - platform_share - leaderboard_share]

deposit_fees(st, signer, source, amount) ==
  IF signer # source THEN Panic("Unauthorized", st)
  ELSE IF amount <= 0 THEN Panic("InvalidAmount", st)
  ELSE IF ~Has(st.admin, "admin") THEN Panic("NotInitialized", st)
  ELSE IF ~CanTransferToken(st.usdc, source, amount) THEN Panic("InsufficientBalance", st)
  ELSE
    LET paid == [st EXCEPT !.usdc = Transfer(st.usdc, source, TreasuryAddress, amount)]
        shares == fee_shares(amount, paid.distribution["distribution"])
        platform == update_pool_balance(paid, "platform_fees", shares.platform)
        leaderboard == update_pool_balance(platform, "leaderboard_fees", shares.leaderboard)
        creator == update_pool_balance(leaderboard, "creator_fees", shares.creator)
    IN Return(<<>>, update_pool_balance(creator, "total_fees", amount))

(***************************************************************************)
(* Treasury::distribute_leaderboard_rewards                                *)
(***************************************************************************)
\* the sum of the second components of a distribution list
RECURSIVE total_of(_)
total_of(distributions) ==
  IF distributions = <<>> THEN 0
  ELSE distributions[1][2] + total_of(Tail(distributions))

\* the transfers of the loop, one per entry, from the Treasury's own balance; the first
\* transfer the token refuses aborts the invocation
RECURSIVE pay_each(_, _)
pay_each(bal, payments) ==
  IF payments = <<>> THEN [ok |-> TRUE, bal |-> bal]
  ELSE IF ~CanTransferToken(bal, TreasuryAddress, payments[1][2])
  THEN [ok |-> FALSE, bal |-> bal]
  ELSE pay_each(Transfer(bal, TreasuryAddress, payments[1][1], payments[1][2]),
                Tail(payments))

\* faulty variant of leaderboard_amount: the amount is rounded up
leaderboard_amount_rounded_up(leaderboard_pool, share) ==
  TruncDiv(leaderboard_pool * share + PctDenominator - 1, PctDenominator)

\* the amount paid for one entry of the list
leaderboard_amount(leaderboard_pool, share) ==
  TruncDiv(leaderboard_pool * share, PctDenominator)

distribute_leaderboard_rewards(st, signer, admin, distributions) ==
  IF signer # admin THEN Panic("Unauthorized", st)
  ELSE IF ~Has(st.admin, "admin") THEN Panic("NotInitialized", st)
  ELSE IF admin # st.admin["admin"] THEN Panic("Unauthorized", st)
  ELSE IF total_of(distributions) # PctDenominator THEN Panic("InvalidShares", st)
  ELSE
    LET leaderboard_pool == GetOr(st.fees, "leaderboard_fees", 0)
        payments == [i \in 1..Len(distributions) |->
                       <<distributions[i][1],
                         leaderboard_amount(leaderboard_pool, distributions[i][2])>>]
        paid == pay_each(st.usdc, payments)
    IN IF leaderboard_pool <= 0 THEN Panic("NoFunds", st)
       ELSE IF ~paid.ok THEN Panic("InsufficientBalance", st)
       ELSE Return(<<>>, [st EXCEPT !.usdc = paid.bal,
                                    !.fees = Put(st.fees, "leaderboard_fees", 0)])

(***************************************************************************)
(* Treasury::distribute_creator_rewards                                    *)
(***************************************************************************)
distribute_creator_rewards(st, signer, admin, distributions) ==
  IF signer # admin THEN Panic("Unauthorized", st)
  ELSE IF ~Has(st.admin, "admin") THEN Panic("NotInitialized", st)
  ELSE IF admin # st.admin["admin"] THEN Panic("Unauthorized", st)
  ELSE
    LET creator_fees == GetOr(st.fees, "creator_fees", 0)
        total_amount == total_of(distributions)
        paid == pay_each(st.usdc, distributions)
    IN IF total_amount > creator_fees THEN Panic("InsufficientPool", st)
       ELSE IF ~paid.ok THEN Panic("InsufficientBalance", st)
       ELSE Return(<<>>, [st EXCEPT !.usdc = paid.bal,
                                    !.fees = Put(st.fees, "creator_fees",
                                                 creator_fees - total_amount)])

(***************************************************************************)
(* Treasury::emergency_withdraw                                            *)
(***************************************************************************)
emergency_withdraw(st, signer, admin, recipient, amount) ==
  IF signer # admin THEN Panic("Unauthorized", st)
  ELSE IF ~Has(st.admin, "admin") THEN Panic("NotInitialized", st)
  ELSE IF admin # st.admin["admin"] THEN Panic("Unauthorized", st)
  ELSE IF ~CanTransferToken(st.usdc, TreasuryAddress, amount)
  THEN Panic("InsufficientBalance", st)
  ELSE Return(<<>>, [st EXCEPT !.usdc = Transfer(st.usdc, TreasuryAddress, recipient, amount)])

(***************************************************************************)
(* MarketFactory                                                           *)
(***************************************************************************)
\* the creation fee charged by create_market
CreationFee == 10000000

\* MarketFactory storage before initialize: no key is present
NoFactoryStore ==
  [admin |-> EmptyMap,          \* ADMIN_KEY (key "admin")
   treasury |-> EmptyMap,       \* TREASURY_KEY (key "treasury")
   market_count |-> EmptyMap,   \* MARKET_COUNT_KEY (key "market_count")
   markets |-> EmptyMap,        \* ("market", market_id) -> true
   market_meta |-> EmptyMap]    \* ("market_meta", market_id) -> metadata

\* the two stores a MarketFactory invocation can write: its own and, through the
\* cross-contract call, the Treasury's
FactoryStores(factory_store, treasury_store) ==
  [factory |-> factory_store, treasury |-> treasury_store]

MarketFactory_initialize(st, signer, admin, treasury_address) ==
  IF Has(st.factory.admin, "admin") THEN Panic("AlreadyInitialized", st)
  ELSE IF signer # admin THEN Panic("Unauthorized", st)
  ELSE Return(<<>>,
         [st EXCEPT
            !.factory.admin = Put(st.factory.admin, "admin", admin),
            !.factory.treasury = Put(st.factory.treasury, "treasury", treasury_address),
            !.factory.market_count = Put(st.factory.market_count, "market_count", 0)])

\* the market id: the hash of the market count and the ledger timestamp, kept as the pair
\* that is hashed
market_id_of(market_count, current_time) == <<market_count, current_time>>

\* faulty variant of invalid_timestamps: a closing time equal to the ledger time is accepted
invalid_timestamps_now_allowed(closing_time, resolution_time, current_time) ==
  closing_time < current_time \/ closing_time >= resolution_time

\* the validation of the two times
invalid_timestamps(closing_time, resolution_time, current_time) ==
  closing_time <= current_time \/ closing_time >= resolution_time

\* the creator's authorization covers the nested deposit_fees(creator, creation_fee); a panic
\* of the Treasury aborts the whole invocation
create_market(st, current_time, signer, creator, closing_time, resolution_time) ==
  IF signer # creator THEN Panic("Unauthorized", st)
  ELSE IF invalid_timestamps(closing_time, resolution_time, current_time)
  THEN Panic("InvalidTimestamps", st)
  ELSE
    LET market_count == GetOr(st.factory.market_count, "market_count", 0)
        market_id == market_id_of(market_count, current_time)
        registered ==
          [st EXCEPT
             !.factory.markets = Put(st.factory.markets, market_id, TRUE),
             !.factory.market_meta =
               Put(st.factory.market_meta, market_id,
                   [creator |-> creator, closing_time |-> closing_time,
                    resolution_time |-> resolution_time]),
             !.factory.market_count =
               Put(st.factory.market_count, "market_count", market_count + 1)]
        deposit == deposit_fees(registered.treasury, creator, creator, CreationFee)
    IN IF ~Has(st.factory.treasury, "treasury") THEN Panic("NotInitialized", st)
       ELSE IF deposit.panic THEN Panic(deposit.result, st)
       ELSE Return(market_id, [registered EXCEPT !.treasury = deposit.st])

(***************************************************************************)
(* The host: a call that panics leaves no write behind                     *)
(***************************************************************************)
\* storage after the invocation ended with outcome r, started from st
Commit(st, r) == IF r.panic THEN st ELSE r.st

\* the record kept of a call: which operation, how it ended, what it returned
Call(op, r) == [op |-> op, result |-> r.result, ret |-> r.ret]

\* an AMM invocation: run the handler, commit or roll back, note the call
Invoke(op, r) ==
  LET st == Commit(AmmStore, r)
  IN /\ last' = Call(op, r)
     /\ pools' = st.pools
     /\ balance' = st.balance
     /\ amm_cfg' = st.amm_cfg
     /\ lp_tokens' = st.lp_tokens
     /\ user_shares' = st.user_shares
     /\ trade_count' = st.trade_count
     /\ trades' = st.trades
     /\ UNCHANGED <<now, oracle, treasury, factory>>

(***************************************************************************)
(* Actions of the AMM                                                      *)
(***************************************************************************)
AmmInitialize(admin, max_liquidity_cap) ==
  Invoke("initialize",
         AMM_initialize(AmmStore, admin, max_liquidity_cap))

CreatePool(creator, market_id, initial_liquidity) ==
  Invoke("create_pool",
         create_pool(AmmStore, creator, market_id, initial_liquidity))

BuyShares(buyer, market_id, outcome, amount, min_shares) ==
  Invoke("buy_shares",
         buy_shares(AmmStore, now, buyer, market_id, outcome, amount, min_shares))

AddLiquidity(lp_provider, market_id, liquidity_amount) ==
  Invoke("add_liquidity",
         add_liquidity(AmmStore, lp_provider, market_id, liquidity_amount))

RemoveLiquidity(lp_provider, market_id, burned) ==
  Invoke("remove_liquidity",
         remove_liquidity(AmmStore, lp_provider, market_id, burned))

\* the ledger clock moves on
Tick ==
  /\ now < MaxTime
  /\ now' = now + 1
  /\ UNCHANGED <<balance, amm_cfg, pools, lp_tokens, user_shares, trade_count, trades, oracle,
                 treasury, factory, last>>

(***************************************************************************)
(* SpecAMM: the AMM under small amounts                                    *)
(***************************************************************************)
Amounts == 0 .. MaxAmount
Outcomes == 0 .. 2
NoCall == [op |-> "none", result |-> "ok", ret |-> <<>>]

InitStores(initial_balance, treasury_store) ==
  /\ now = 0
  /\ balance = [a \in Users \cup {AmmAddress} |-> IF a = AmmAddress THEN 0 ELSE initial_balance]
  /\ amm_cfg = NoCfg
  /\ pools = EmptyMap
  /\ lp_tokens = EmptyMap
  /\ user_shares = EmptyMap
  /\ trade_count = EmptyMap
  /\ trades = EmptyMap
  /\ oracle = NoOracleStore
  /\ treasury = treasury_store
  /\ factory = NoFactoryStore
  /\ last = NoCall

InitWith(initial_balance) == InitStores(initial_balance, NoTreasuryStore)

InitAMM == InitWith(InitBalance)

NextAMM ==
  \/ \E admin \in Users : AmmInitialize(admin, LiquidityCap)
  \/ \E creator \in Users, m \in Markets, a \in Amounts : CreatePool(creator, m, a)
  \/ \E buyer \in Users, m \in Markets, o \in Outcomes, a \in Amounts, ms \in 0 .. MaxMinShares :
       /\ GetOr(trade_count, m, 0) < MaxTrades
       /\ BuyShares(buyer, m, o, a, ms)
  \/ \E p \in Users, m \in Markets, a \in Amounts : AddLiquidity(p, m, a)
  \/ \E p \in Users, m \in Markets, a \in Amounts : RemoveLiquidity(p, m, a)
  \/ Tick

SpecAMM == InitAMM /\ [][NextAMM]_vars

(***************************************************************************)
(* SpecScenario: the AMM under amounts large enough for a non-zero fee     *)
(***************************************************************************)
ScenarioAmounts == {0, ScenarioTrade, ScenarioLargeTrade, ScenarioSeed}

InitScenario == InitWith(ScenarioBalance)

\* the liquidity provider and the trader of the scenario
ScenarioProvider == "u1"
ScenarioTrader == "u2"

NextScenario ==
  \/ AmmInitialize(ScenarioProvider, ScenarioCap)
  \/ \E m \in Markets : CreatePool(ScenarioProvider, m, ScenarioSeed)
  \/ \E m \in Markets, o \in Outcomes, a \in ScenarioAmounts, ms \in {0, ScenarioMinShares} :
       /\ GetOr(trade_count, m, 0) < ScenarioTrades
       /\ BuyShares(ScenarioTrader, m, o, a, ms)
  \/ \E m \in Markets : AddLiquidity(ScenarioProvider, m, ScenarioTrade)
  \/ \E m \in Markets : RemoveLiquidity(ScenarioProvider, m, ScenarioSeed)

SpecScenario == InitScenario /\ [][NextScenario]_vars

(***************************************************************************)
(* SpecSeed: the AMM with accounts that hold more than the liquidity cap   *)
(***************************************************************************)
SeedAmounts == 0..SeedBalance

NextSeed ==
  \/ AmmInitialize(ScenarioProvider, LiquidityCap)
  \/ \E m \in Markets, a \in SeedAmounts : CreatePool(ScenarioProvider, m, a)
  \/ \E m \in Markets, o \in {0, 1}, a \in Amounts :
       /\ GetOr(trade_count, m, 0) < MaxTrades
       /\ BuyShares(ScenarioTrader, m, o, a, 0)
  \/ \E m \in Markets, a \in Amounts : AddLiquidity(ScenarioProvider, m, a)
  \/ \E m \in Markets, a \in Amounts : RemoveLiquidity(ScenarioProvider, m, a)

InitSeed == InitWith(SeedBalance)

SpecSeed == InitSeed /\ [][NextSeed]_vars

(***************************************************************************)
(* Actions of the OracleManager                                            *)
(***************************************************************************)
\* an OracleManager invocation: run the handler, commit or roll back, note the call
InvokeOracle(op, r) ==
  /\ last' = Call(op, r)
  /\ oracle' = Commit(oracle, r)
  /\ UNCHANGED <<now, balance, amm_cfg, pools, lp_tokens, user_shares, trade_count, trades,
                 treasury, factory>>

OracleInitialize(signer, admin, required_consensus) ==
  InvokeOracle("oracle_initialize",
               OracleManager_initialize(oracle, signer, admin, required_consensus))

RegisterOracle(signer, oracle_id, oracle_name) ==
  InvokeOracle("register_oracle", register_oracle(oracle, now, signer, oracle_id, oracle_name))

RegisterMarket(signer, market_id, resolution_time) ==
  InvokeOracle("register_market", register_market(oracle, signer, market_id, resolution_time))

SubmitAttestation(oracle_id, market_id, attestation_result) ==
  InvokeOracle("submit_attestation",
               submit_attestation(oracle, now, oracle_id, market_id, attestation_result))

(***************************************************************************)
(* SpecOracle: attestation and consensus                                   *)
(***************************************************************************)
Admins == {"admin", "eve"}
OracleIds == {"o1", "o2"}
OracleName == "Oracle"
Thresholds == 0 .. MaxThreshold
ResolutionTimes == 0 .. (MaxTime + 1)

InitOracle == InitWith(InitBalance)

NextOracle ==
  \/ \E signer \in Admins, admin \in Admins, t \in Thresholds :
       OracleInitialize(signer, admin, t)
  \/ \E signer \in Admins, o \in OracleIds : RegisterOracle(signer, o, OracleName)
  \/ \E signer \in Admins, m \in Markets, rt \in ResolutionTimes : RegisterMarket(signer, m, rt)
  \/ \E o \in OracleIds, m \in Markets, res \in Outcomes : SubmitAttestation(o, m, res)
  \/ Tick

SpecOracle == InitOracle /\ [][NextOracle]_vars

(***************************************************************************)
(* SpecConsensus: the vote tally with enough oracles for ties and splits    *)
(***************************************************************************)
ConsensusOracles == {"o1", "o2", "o3", "o4"}
ConsensusAdmin == "admin"

NextConsensus ==
  \/ \E t \in Thresholds : OracleInitialize(ConsensusAdmin, ConsensusAdmin, t)
  \/ \E o \in ConsensusOracles : RegisterOracle(ConsensusAdmin, o, OracleName)
  \/ \E m \in Markets : RegisterMarket(ConsensusAdmin, m, 0)
  \/ \E o \in ConsensusOracles, m \in Markets, res \in {0, 1} : SubmitAttestation(o, m, res)

SpecConsensus == InitOracle /\ [][NextConsensus]_vars

(***************************************************************************)
(* SpecTie: five oracles, so that a 2-vs-2 split can be broken by a fifth   *)
(***************************************************************************)
TieOracles == {"o1", "o2", "o3", "o4", "o5"}

\* the attestations tried: two oracles for YES, two for NO, the fifth for either
TieBallots == {<<"o1", 1>>, <<"o2", 1>>, <<"o3", 0>>, <<"o4", 0>>, <<"o5", 0>>, <<"o5", 1>>}

NextTie ==
  \/ \E t \in Thresholds : OracleInitialize(ConsensusAdmin, ConsensusAdmin, t)
  \/ \E o \in TieOracles : RegisterOracle(ConsensusAdmin, o, OracleName)
  \/ \E m \in Markets : RegisterMarket(ConsensusAdmin, m, 0)
  \/ \E ballot \in TieBallots, m \in Markets : SubmitAttestation(ballot[1], m, ballot[2])

SpecTie == InitOracle /\ [][NextTie]_vars

(***************************************************************************)
(* SpecRegistry: the oracle registry with more identities than the limit   *)
(***************************************************************************)
RegistryOracles == {"o1", "o2", "o3", "o4", "o5", "o6", "o7", "o8", "o9", "o10", "o11"}

NextRegistry ==
  \/ \E signer \in Admins, admin \in Admins : OracleInitialize(signer, admin, MaxThreshold)
  \/ \E signer \in Admins, o \in RegistryOracles : RegisterOracle(signer, o, OracleName)

SpecRegistry == InitOracle /\ [][NextRegistry]_vars

(***************************************************************************)
(* SpecFrame: both contracts serving two markets                           *)
(***************************************************************************)
FrameMarkets == {"m1", "m2"}
FrameAmounts == {2}
FrameOracle == "o1"

NextFrame ==
  \/ AmmInitialize(ScenarioProvider, LiquidityCap)
  \/ \E m \in FrameMarkets, a \in FrameAmounts : CreatePool(ScenarioProvider, m, a)
  \/ \E m \in FrameMarkets, o \in {0, 1}, a \in FrameAmounts :
       /\ GetOr(trade_count, m, 0) < MaxTrades
       /\ BuyShares(ScenarioTrader, m, o, a, 0)
  \/ \E m \in FrameMarkets, a \in FrameAmounts : AddLiquidity(ScenarioProvider, m, a)
  \/ \E m \in FrameMarkets, a \in FrameAmounts : RemoveLiquidity(ScenarioProvider, m, a)
  \/ OracleInitialize(ConsensusAdmin, ConsensusAdmin, MaxThreshold)
  \/ RegisterOracle(ConsensusAdmin, FrameOracle, OracleName)
  \/ \E m \in FrameMarkets : RegisterMarket(ConsensusAdmin, m, 0)
  \/ \E m \in FrameMarkets, res \in {0, 1} : SubmitAttestation(FrameOracle, m, res)

InitFrame == InitWith(FrameBalance)

SpecFrame == InitFrame /\ [][NextFrame]_vars

(***************************************************************************)
(* Treasury invocations                                                    *)
(***************************************************************************)
InvokeTreasury(op, r) ==
  /\ last' = Call(op, r)
  /\ treasury' = Commit(treasury, r)
  /\ UNCHANGED <<now, balance, amm_cfg, pools, lp_tokens, user_shares, trade_count, trades,
                 oracle, factory>>

TreasuryInitialize(signer, admin) ==
  InvokeTreasury("treasury_initialize", Treasury_initialize(treasury, signer, admin))

SetFeeDistribution(signer, platform_fee_pct, leaderboard_fee_pct, creator_fee_pct) ==
  InvokeTreasury("set_fee_distribution",
                 set_fee_distribution(treasury, signer, platform_fee_pct, leaderboard_fee_pct,
                                      creator_fee_pct))

DepositFees(signer, source, amount) ==
  InvokeTreasury("deposit_fees", deposit_fees(treasury, signer, source, amount))

DistributeLeaderboardRewards(signer, admin, distributions) ==
  InvokeTreasury("distribute_leaderboard_rewards",
                 distribute_leaderboard_rewards(treasury, signer, admin, distributions))

DistributeCreatorRewards(signer, admin, distributions) ==
  InvokeTreasury("distribute_creator_rewards",
                 distribute_creator_rewards(treasury, signer, admin, distributions))

EmergencyWithdraw(signer, admin, recipient, amount) ==
  InvokeTreasury("emergency_withdraw",
                 emergency_withdraw(treasury, signer, admin, recipient, amount))

(***************************************************************************)
(* SpecTreasury: the Treasury under every caller, ratio and amount         *)
(***************************************************************************)
\* the administrator and a fee source; either may sign any call
TreasuryAdmin == "u1"
TreasurySource == "u2"

\* a ratio in the upper half of the u32 range: three of them sum past the range
LargePct == (HalfWord \div 2 - 1) * HalfWord + (HalfWord - 1)

\* the ratios offered to set_fee_distribution: the extremes, a half and a large one
FeePcts == {0, DefaultPlatformPct, PctDenominator, LargePct}

\* the amounts offered to deposit_fees and emergency_withdraw
FeeAmounts == -1..MaxFee

\* the share lists offered to distribute_leaderboard_rewards
ShareLists == {<<>>, <<<<TreasurySource, PctDenominator>>>>,
               <<<<TreasuryAdmin, DefaultPlatformPct>>, <<TreasurySource, DefaultPlatformPct>>>>,
               <<<<TreasuryAdmin, DefaultPlatformPct>>, <<TreasurySource, DefaultCreatorPct>>>>}

\* the amount lists offered to distribute_creator_rewards
AmountLists == {<<>>, <<<<TreasurySource, 1>>>>, <<<<TreasuryAdmin, 1>>, <<TreasurySource, 1>>>>,
                <<<<TreasurySource, MaxFee>>>>}

NextTreasury ==
  \/ \E signer \in Users : TreasuryInitialize(signer, TreasuryAdmin)
  \/ \E signer \in Users, p \in FeePcts, l \in FeePcts, c \in FeePcts :
       SetFeeDistribution(signer, p, l, c)
  \/ \E signer \in Users, a \in FeeAmounts :
       /\ GetOr(treasury.fees, "total_fees", 0) < MaxTotalFees
       /\ DepositFees(signer, TreasurySource, a)
  \/ \E signer \in Users, d \in ShareLists :
       DistributeLeaderboardRewards(signer, signer, d)
  \/ \E signer \in Users, d \in AmountLists :
       DistributeCreatorRewards(signer, signer, d)
  \/ \E signer \in Users, a \in FeeAmounts :
       EmergencyWithdraw(signer, signer, TreasurySource, a)

InitTreasury == InitWith(InitBalance)

SpecTreasury == InitTreasury /\ [][NextTreasury]_vars

(***************************************************************************)
(* MarketFactory invocations                                               *)
(***************************************************************************)
InvokeFactory(op, r) ==
  LET st == Commit(FactoryStores(factory, treasury), r)
  IN /\ last' = Call(op, r)
     /\ factory' = st.factory
     /\ treasury' = st.treasury
     /\ UNCHANGED <<now, balance, amm_cfg, pools, lp_tokens, user_shares, trade_count, trades,
                    oracle>>

FactoryInitialize(signer, admin, treasury_address) ==
  InvokeFactory("factory_initialize",
                MarketFactory_initialize(FactoryStores(factory, treasury), signer, admin,
                                         treasury_address))

CreateMarket(signer, creator, closing_time, resolution_time) ==
  InvokeFactory("create_market",
                create_market(FactoryStores(factory, treasury), now, signer, creator,
                              closing_time, resolution_time))

(***************************************************************************)
(* SpecFactory: the MarketFactory in front of the Treasury                 *)
(***************************************************************************)
ClosingTimes == 0..MaxClosingTime
FactoryResolutionTimes == 0..(MaxClosingTime + 1)

NextFactory ==
  \/ \E signer \in Users : FactoryInitialize(signer, TreasuryAdmin, TreasuryAddress)
  \/ \E signer \in Users : TreasuryInitialize(signer, TreasuryAdmin)
  \/ \E signer \in Users, creator \in Users, c \in ClosingTimes, r \in FactoryResolutionTimes :
       CreateMarket(signer, creator, c, r)
  \/ Tick

\* every creator holds the funds for AffordableMarkets creation fees
InitFactory ==
  InitStores(InitBalance,
             [NoTreasuryStore EXCEPT
                !.usdc = [a \in Users \cup {TreasuryAddress} |->
                            IF a = TreasuryAddress THEN 0
                            ELSE AffordableMarkets * CreationFee]])

SpecFactory == InitFactory /\ [][NextFactory]_vars

(***************************************************************************)
(* Properties of the AMM                                                   *)
(***************************************************************************)
AmmOps == {"initialize", "create_pool", "buy_shares", "add_liquidity", "remove_liquidity"}

\* providers holding an LP balance entry of a market
Providers(market_id) == {p \in Users : Has(lp_tokens, <<market_id, p>>)}

\* sum of the LP balance entries of a market
LpBalanceSum(market_id) ==
  SumOver([p \in Providers(market_id) |-> lp_tokens[<<market_id, p>>]], Providers(market_id))

\* C1: every existing pool has yes_reserve > 0 and no_reserve > 0, right after
\* create_pool with any positive seed and after every later operation.
C1_ReservesPositive ==
  \A m \in DOMAIN pools : pools[m].yes_reserve > 0 /\ pools[m].no_reserve > 0

\* C2: in every state (so after every AMM operation, accepted or rejected) the
\* LP supply of each pool is the sum of its providers' LP balances, no balance
\* entry holds zero, and entries exist only for existing pools.
C2_LpSupplyIsSum ==
  /\ \A m \in DOMAIN pools : pools[m].lp_supply = LpBalanceSum(m)
  /\ \A key \in DOMAIN lp_tokens : lp_tokens[key] > 0 /\ key[1] \in DOMAIN pools

\* C2 witness: a provider burned a whole LP balance while another still holds one
C2_Witness ==
  /\ last.op = "remove_liquidity" /\ last.result = "ok"
  /\ \E m \in DOMAIN pools : \E p, q \in Users :
       /\ ~Has(lp_tokens, <<m, p>>)
       /\ Has(lp_tokens, <<m, q>>)
       /\ pools[m].lp_supply = lp_tokens[<<m, q>>]

\* C7: a rejected AMM call leaves balances, configuration, reserves, k, LP
\* supply, LP balances, share positions and trade records as they were.
C7_RejectedCallChangesNothing ==
  [][(last'.op \in AmmOps /\ last'.result # "ok") => UNCHANGED ammVars]_vars

\* C7 witness: create_pool rejected by the custodian for lack of funds
C7_Witness ==
  /\ last.op = "create_pool" /\ last.result = "InsufficientBalance"
  /\ pools = EmptyMap /\ lp_tokens = EmptyMap

\* what the pricing law of buy_shares prescribes for a pool and a gross amount
PrescribedFee(amount) == (amount * amm_cfg.trading_fee) \div BpsDenominator
PrescribedShares(market_id, outcome, amount) ==
  LET amount_net == amount - PrescribedFee(amount)
      Y == IF outcome = 1 THEN pools[market_id].yes_reserve ELSE pools[market_id].no_reserve
      X == IF outcome = 1 THEN pools[market_id].no_reserve ELSE pools[market_id].yes_reserve
  IN (amount_net * Y) \div (X + amount_net)

\* the inputs of buy_shares SpecScenario draws from
BuyAmounts == ScenarioAmounts \ {0}
BuyMinShares == {0, ScenarioMinShares}

\* C8: on an existing pool, buy_shares(outcome in {0,1}, amount > 0, min_shares)
\* returns shares_out = floor(amount_net * Y / (X + amount_net)) with
\* amount_net = amount - floor(amount * fee_bps / 10000) when shares_out >=
\* min_shares (and the buyer can pay), and is rejected SlippageExceeded with the
\* state unchanged when shares_out < min_shares.
C8_SharesOutFormula ==
  [][\A b \in Users, m \in Markets, o \in {0, 1}, a \in BuyAmounts, ms \in BuyMinShares :
       (last'.op = "buy_shares" /\ Has(pools, m) /\ BuyShares(b, m, o, a, ms)) =>
         LET shares_out == PrescribedShares(m, o, a)
         IN /\ shares_out < ms =>
                 last'.result = "SlippageExceeded" /\ UNCHANGED ammVars
            /\ (shares_out >= ms /\ balance[b] >= a) =>
                 last'.result = "ok" /\ last'.ret = <<shares_out>>
            /\ last'.result = "ok" => last'.ret = <<shares_out>> /\ shares_out >= ms]_vars

\* C8 witness: a buy large enough to be charged a fee went through
C8_Witness ==
  /\ last.op = "buy_shares" /\ last.result = "ok"
  /\ \E key \in DOMAIN trades : trades[key].fee > 0 /\ trades[key].shares_out > 0

\* C8 witness of the rejection: a buy was refused for slippage
C8_WitnessSlippage == last.op = "buy_shares" /\ last.result = "SlippageExceeded"

C10_Original ==
  [][\A b \in Users, m \in Markets, ms \in BuyMinShares :
       (/\ last'.op = "buy_shares" /\ Has(pools, m)
        /\ pools[m].yes_reserve = 500 /\ pools[m].no_reserve = 500
        /\ amm_cfg.trading_fee = 20
        /\ BuyShares(b, m, 1, 100, ms) /\ last'.result = "ok") =>
         /\ last'.ret = <<82>>
         /\ pools'[m].yes_reserve = 418 /\ pools'[m].no_reserve = 599
         /\ \E key \in (DOMAIN trades') \ (DOMAIN trades) :
              trades'[key].amount - trades'[key].fee = 99]_vars

\* C10 as the code computes it: the fee floor(100 * 20 / 10000) is 0, so the
\* buy nets 100, returns floor(100 * 500 / 600) = 83 and leaves 417 / 600.
C10_Amended ==
  [][\A b \in Users, m \in Markets, ms \in BuyMinShares :
       (/\ last'.op = "buy_shares" /\ Has(pools, m)
        /\ pools[m].yes_reserve = 500 /\ pools[m].no_reserve = 500
        /\ amm_cfg.trading_fee = 20
        /\ BuyShares(b, m, 1, 100, ms) /\ last'.result = "ok") =>
         /\ last'.ret = <<83>>
         /\ pools'[m].yes_reserve = 417 /\ pools'[m].no_reserve = 600
         /\ \E key \in (DOMAIN trades') \ (DOMAIN trades) :
              trades'[key].amount - trades'[key].fee = 100]_vars

\* C10 witness: the first trade of a pool seeded with 1000 bought YES for 100
C10_Witness ==
  /\ last.op = "buy_shares" /\ last.result = "ok" /\ last.ret = <<83>>
  /\ \E m \in DOMAIN pools :
       /\ pools[m].lp_supply = 1000
       /\ pools[m].yes_reserve = 417 /\ pools[m].no_reserve = 600
       /\ Has(trades, <<m, 1>>) /\ ~Has(trades, <<m, 2>>)
       /\ trades[<<m, 1>>].outcome = 1 /\ trades[<<m, 1>>].amount = 100

\* C11: a successful buy_shares on a pool whose reserves are both positive
\* leaves yes_reserve * no_reserve at least as large as it was.
C11_ProductNeverDecreases ==
  [][(last'.op = "buy_shares" /\ last'.result = "ok") =>
       \A m \in DOMAIN pools :
         (pools[m].yes_reserve > 0 /\ pools[m].no_reserve > 0) =>
           pools'[m].yes_reserve * pools'[m].no_reserve
             >= pools[m].yes_reserve * pools[m].no_reserve]_vars

\* C11 witness: the first buy on a pool seeded with 1000 went through and
\* the product grew above the 500 * 500 it started from
C11_Witness ==
  /\ last.op = "buy_shares" /\ last.result = "ok"
  /\ \E m \in DOMAIN pools :
       /\ pools[m].lp_supply = ScenarioSeed
       /\ GetOr(trade_count, m, 0) = 1
       /\ pools[m].yes_reserve * pools[m].no_reserve > 250000

\* the amounts remove_liquidity would pay the provider for the LP tokens just
\* minted, run on the storage the deposit left behind
WithdrawMinted(st, lp_provider, market_id, minted) ==
  remove_liquidity(st, lp_provider, market_id, minted)

\* C12: when add_liquidity(amount) succeeds minting m LP tokens and the same
\* provider at once calls remove_liquidity(m) and it succeeds, the two amounts
\* paid out sum to at most amount.
C12_AddThenRemoveNoGain ==
  [][\A p \in Users, m \in Markets, a \in BuyAmounts :
       (last'.op = "add_liquidity" /\ last'.result = "ok" /\ AddLiquidity(p, m, a)) =>
         LET back == WithdrawMinted(AmmStore', p, m, last'.ret[1])
         IN back.result = "ok" => back.ret[1] + back.ret[2] <= a]_vars

\* C12 witness: the provider deposited ScenarioTrade, and withdrawing the
\* minted LP tokens at once would succeed and pay strictly less (rounding loss)
C12_Witness ==
  /\ last.op = "add_liquidity" /\ last.result = "ok"
  /\ \E m \in DOMAIN pools :
       LET back == WithdrawMinted(AmmStore, ScenarioProvider, m, last.ret[1])
       IN /\ back.result = "ok"
          /\ back.ret[1] + back.ret[2] < ScenarioTrade
          /\ back.ret[1] + back.ret[2] > 0

\* C13: a successful add_liquidity keeps the reserve ratio: with reserves
\* (y, n) before and (y', n') after, y' * n = y * n'.
C13_RatioPreserved ==
  [][(last'.op = "add_liquidity" /\ last'.result = "ok") =>
       \A m \in DOMAIN pools :
         pools'[m].yes_reserve * pools[m].no_reserve
           = pools[m].yes_reserve * pools'[m].no_reserve]_vars

\* the positive amounts SpecAMM draws from
Deposits == Amounts \ {0}

\* what the minting rule of add_liquidity prescribes for a pool and a deposit
PrescribedMint(market_id, amount) ==
  (amount * pools[market_id].lp_supply)
    \div (pools[market_id].yes_reserve + pools[market_id].no_reserve)

\* C14: a successful add_liquidity(amount) on an existing pool returns
\* floor(amount * lp_total_supply / (yes_reserve + no_reserve)) and adds that
\* number to the provider's LP balance and to lp_total_supply, leaving the
\* other providers' balances alone; when the number is zero the call is
\* rejected AmountTooSmall and nothing changes.
C14_MintsProportionalShare ==
  [][\A p \in Users, m \in Markets, a \in Deposits :
       (last'.op = "add_liquidity" /\ Has(pools, m) /\ AddLiquidity(p, m, a)) =>
         LET minted == PrescribedMint(m, a)
         IN /\ minted = 0 => last'.result = "AmountTooSmall" /\ UNCHANGED ammVars
            /\ last'.result = "ok" =>
                 /\ minted > 0
                 /\ last'.ret = <<minted>>
                 /\ lp_tokens'[<<m, p>>] = GetOr(lp_tokens, <<m, p>>, 0) + minted
                 /\ pools'[m].lp_supply = pools[m].lp_supply + minted
                 /\ \A q \in Users \ {p} :
                      /\ Has(lp_tokens', <<m, q>>) <=> Has(lp_tokens, <<m, q>>)
                      /\ GetOr(lp_tokens', <<m, q>>, 0) = GetOr(lp_tokens, <<m, q>>, 0)]_vars

\* C14 witness: a deposit of 2 into a pool holding 3 against 2 LP tokens
\* minted floor(2 * 2 / 3) = 1
C14_Witness ==
  /\ last.op = "add_liquidity" /\ last.result = "ok" /\ last.ret = <<1>>
  /\ \E m \in DOMAIN pools :
       /\ pools[m].lp_supply = 3
       /\ pools[m].yes_reserve + pools[m].no_reserve = 5

\* C14 witness of the rejection: a deposit too small to mint one LP token
C14_WitnessTooSmall == last.op = "add_liquidity" /\ last.result = "AmountTooSmall"

\* C15: after a successful add_liquidity the pool holds at most
\* max_liquidity_cap; a deposit that would take yes_reserve + no_reserve above
\* the cap is rejected with nothing changed, as MaxLiquidityExceeded whenever
\* it passes the earlier minting test.
C15_LiquidityCapped ==
  [][\A p \in Users, m \in Markets, a \in Deposits :
       (last'.op = "add_liquidity" /\ Has(pools, m) /\ AddLiquidity(p, m, a)) =>
         /\ last'.result = "ok" =>
              pools'[m].yes_reserve + pools'[m].no_reserve <= amm_cfg.max_liquidity_cap
         /\ pools[m].yes_reserve + pools[m].no_reserve + a > amm_cfg.max_liquidity_cap =>
              /\ last'.result # "ok"
              /\ UNCHANGED ammVars
              /\ PrescribedMint(m, a) > 0 => last'.result = "MaxLiquidityExceeded"]_vars

\* C15 witness: a deposit was refused for the cap
C15_Witness ==
  /\ last.op = "add_liquidity" /\ last.result = "MaxLiquidityExceeded"
  /\ \E m \in DOMAIN pools :
       pools[m].yes_reserve + pools[m].no_reserve <= amm_cfg.max_liquidity_cap

\* C15 witness of the boundary: a deposit filled the pool exactly to the cap
C15_WitnessAtCap ==
  /\ last.op = "add_liquidity" /\ last.result = "ok"
  /\ \E m \in DOMAIN pools :
       pools[m].yes_reserve + pools[m].no_reserve = amm_cfg.max_liquidity_cap

\* what the withdrawal rule of remove_liquidity prescribes for one reserve
PrescribedWithdrawal(reserve, market_id, burned) ==
  (burned * reserve) \div pools[market_id].lp_supply

\* C16: remove_liquidity(provider, lp_tokens) on an existing pool pays
\* yes_amount = floor(lp_tokens * yes_reserve / lp_total_supply) and
\* no_amount = floor(lp_tokens * no_reserve / lp_total_supply) out of custody
\* and burns lp_tokens; it is rejected with nothing changed when lp_tokens = 0
\* (InvalidAmount), when the provider holds fewer LP tokens
\* (InsufficientLpTokens), when either amount is zero (AmountTooSmall) and when
\* either reserve would be left at zero (PoolDrainForbidden).
C16_ProportionalWithdrawal ==
  [][\A p \in Users, m \in Markets, b \in Amounts :
       (last'.op = "remove_liquidity" /\ Has(pools, m) /\ RemoveLiquidity(p, m, b)) =>
         LET held == GetOr(lp_tokens, <<m, p>>, 0)
             yes_amount == PrescribedWithdrawal(pools[m].yes_reserve, m, b)
             no_amount == PrescribedWithdrawal(pools[m].no_reserve, m, b)
             expected ==
               IF b = 0 THEN "InvalidAmount"
               ELSE IF held < b THEN "InsufficientLpTokens"
               ELSE IF yes_amount = 0 \/ no_amount = 0 THEN "AmountTooSmall"
               ELSE IF pools[m].yes_reserve = yes_amount \/ pools[m].no_reserve = no_amount
               THEN "PoolDrainForbidden"
               ELSE "ok"
         IN /\ last'.result = expected
            /\ expected # "ok" => UNCHANGED ammVars
            /\ expected = "ok" =>
                 /\ last'.ret = <<yes_amount, no_amount>>
                 /\ balance'[p] = balance[p] + yes_amount + no_amount
                 /\ balance'[AmmAddress] = balance[AmmAddress] - (yes_amount + no_amount)
                 /\ pools'[m].yes_reserve = pools[m].yes_reserve - yes_amount
                 /\ pools'[m].no_reserve = pools[m].no_reserve - no_amount
                 /\ pools'[m].lp_supply = pools[m].lp_supply - b
                 /\ GetOr(lp_tokens', <<m, p>>, 0) = held - b]_vars

\* C16 witness: a withdrawal paid one unit of each reserve and left a pool
C16_Witness ==
  /\ last.op = "remove_liquidity" /\ last.result = "ok"
  /\ last.ret[1] > 0 /\ last.ret[2] > 0
  /\ \E m \in DOMAIN pools : pools[m].yes_reserve > 0 /\ pools[m].no_reserve > 0

\* C16 witnesses of the rejections
C16_WitnessTooSmall == last.op = "remove_liquidity" /\ last.result = "AmountTooSmall"
C16_WitnessDrain == last.op = "remove_liquidity" /\ last.result = "PoolDrainForbidden"
C16_WitnessInsufficient == last.op = "remove_liquidity" /\ last.result = "InsufficientLpTokens"

\* C17: a successful create_pool(creator, market_id, seed) stores yes_reserve =
\* floor(seed / 2), no_reserve = seed - yes_reserve, k = their product and
\* lp_total_supply = seed, credits the whole supply to creator and nobody
\* else, and moves exactly seed from creator into custody.
C17_CreatePoolEffect ==
  [][\A c \in Users, m \in Markets, seed \in Amounts :
       (last'.op = "create_pool" /\ last'.result = "ok" /\ CreatePool(c, m, seed)) =>
         /\ pools'[m].yes_reserve = seed \div 2
         /\ pools'[m].no_reserve = seed - seed \div 2
         /\ pools'[m].k = (seed \div 2) * (seed - seed \div 2)
         /\ pools'[m].lp_supply = seed
         /\ lp_tokens'[<<m, c>>] = seed
         /\ \A q \in Users \ {c} : ~Has(lp_tokens', <<m, q>>)
         /\ balance'[c] = balance[c] - seed
         /\ balance'[AmmAddress] = balance[AmmAddress] + seed
         /\ \A q \in Users \ {c} : balance'[q] = balance[q]]_vars

\* C17 witness: a pool was just created from an odd seed, the odd unit on NO
C17_Witness ==
  /\ last.op = "create_pool" /\ last.result = "ok"
  /\ \E m \in DOMAIN pools :
       /\ pools[m].lp_supply = 3
       /\ pools[m].yes_reserve = 1 /\ pools[m].no_reserve = 2 /\ pools[m].k = 2
       /\ balance[AmmAddress] = 3

\* C18: a pool, once it exists, exists in every later state; a further
\* create_pool for its market id is rejected with the pool, the LP balances and
\* the token balances unchanged, as AlreadyExists for a positive seed; and
\* create_pool with seed 0 is rejected InvalidAmount and creates no pool.
C18_PoolCreatedOnce ==
  [][/\ \A m \in DOMAIN pools : m \in DOMAIN pools'
     /\ last'.op = "create_pool" =>
          \A c \in Users, m \in Markets, seed \in Amounts :
            CreatePool(c, m, seed) =>
              /\ (Has(pools, m) /\ seed > 0) =>
                   last'.result = "AlreadyExists" /\ UNCHANGED ammVars
              /\ Has(pools, m) => last'.result # "ok" /\ UNCHANGED ammVars
              /\ seed = 0 =>
                   last'.result = "InvalidAmount" /\ UNCHANGED ammVars]_vars

\* C18 witness: a second create_pool for a market was refused, after trading
\* and liquidity changes on the pool
C18_Witness ==
  /\ last.op = "create_pool" /\ last.result = "AlreadyExists"
  /\ \E m \in DOMAIN pools :
       pools[m].lp_supply # pools[m].yes_reserve + pools[m].no_reserve

\* C18 witness of the zero seed: refused before any pool existed
C18_WitnessZeroSeed ==
  last.op = "create_pool" /\ last.result = "InvalidAmount" /\ pools = EmptyMap

(***************************************************************************)
(* Properties of the OracleManager                                         *)
(***************************************************************************)
\* oracles with a stored Attestation of the given outcome for a market
Attestors(market_id, outcome) ==
  {key \in DOMAIN oracle.attestation :
     key[1] = market_id /\ oracle.attestation[key].outcome = outcome}

\* votes(X): the number of stored attestations for X
Votes(market_id, outcome) == Cardinality(Attestors(market_id, outcome))

ConfiguredThreshold == GetOr(oracle.required_consensus, "threshold", 0)

\* C3: check_consensus returns (true, X) exactly when votes(X) >= threshold and
\* votes(X) > votes(not X); in every other case (too few voters, a tie at or
\* above the threshold) it returns (false, 0).
C3_ConsensusRule ==
  \A m \in Markets :
    LET r == check_consensus(oracle, m)
    IN /\ \A X \in {0, 1} :
            (r = <<TRUE, X>>) <=>
              (Votes(m, X) >= ConfiguredThreshold /\ Votes(m, X) > Votes(m, 1 - X))
       /\ (r[1] = FALSE => r = <<FALSE, 0>>)

\* C3 witness: two attest YES, two attest NO, threshold 2, and no consensus
C3_Witness ==
  \E m \in Markets :
    /\ ConfiguredThreshold = 2
    /\ Votes(m, 1) = 2 /\ Votes(m, 0) = 2
    /\ check_consensus(oracle, m) = <<FALSE, 0>>

\* C4: a stored Attestation never changes or disappears, and a
\* submit_attestation by an oracle that has already attested for the market is
\* rejected (DuplicateAttestation once the earlier preconditions pass) and
\* leaves the attestations, votes, voter list and counters as they were.
C4_OneImmutableAttestation ==
  [][/\ \A key \in DOMAIN oracle.attestation :
          /\ key \in DOMAIN oracle'.attestation
          /\ oracle'.attestation[key] = oracle.attestation[key]
     /\ last'.op = "submit_attestation" =>
          \A o \in OracleIds, m \in Markets, res \in Outcomes :
            (Has(oracle.attestation, <<m, o>>) /\ SubmitAttestation(o, m, res)) =>
              /\ last'.result # "ok"
              /\ oracle' = oracle
              /\ (res <= 1 /\ now >= oracle.mkt_res_time[m]) =>
                   last'.result = "DuplicateAttestation"]_vars

\* C4 witness: a second attestation by the same oracle was refused
C4_Witness ==
  /\ last.op = "submit_attestation" /\ last.result = "DuplicateAttestation"
  /\ \E key \in DOMAIN oracle.attestation : Len(oracle.voters[key[1]]) = 1

\* C5: the counts get_attestation_counts returns for a market equal the number
\* of stored attestations with outcome 1 and with outcome 0.
C5_CountsMatchStored ==
  \A m \in Markets : get_attestation_counts(oracle, m) = <<Votes(m, 1), Votes(m, 0)>>

\* C6: at most 10 oracle identities are ever registered.
C6_AtMostTenOracles == Cardinality(DOMAIN oracle.oracles) <= MaxOracles

\* is the oracle a registered attestor
IsRegisteredOracle(oracle_id) ==
  Has(oracle.oracles, oracle_id) /\ oracle.oracles[oracle_id].registered

\* the first precondition of submit_attestation that fails, in the order of
\* the specification, or "ok" when none does
FirstFailingPrecondition(oracle_id, market_id, outcome) ==
  IF ~IsRegisteredOracle(oracle_id) THEN "NotRegistered"
  ELSE IF ~Has(oracle.mkt_res_time, market_id) THEN "MarketNotRegistered"
  ELSE IF now < oracle.mkt_res_time[market_id] THEN "TooEarly"
  ELSE IF outcome \notin {0, 1} THEN "InvalidOutcome"
  ELSE IF Has(oracle.attestation, <<market_id, oracle_id>>) THEN "DuplicateAttestation"
  ELSE "ok"

\* C19: submit_attestation reports the first failing precondition in the order
\* NotRegistered, MarketNotRegistered, TooEarly, InvalidOutcome,
\* DuplicateAttestation, and a rejected call changes nothing.
C19_PreconditionOrder ==
  [][last'.op = "submit_attestation" =>
       \A o \in OracleIds, m \in Markets, res \in Outcomes :
         SubmitAttestation(o, m, res) =>
           /\ last'.result = FirstFailingPrecondition(o, m, res)
           /\ last'.result # "ok" => oracle' = oracle]_vars

\* C19 witness: every oracle had attested, the market was registered again with
\* a later resolution time, and the next submission was refused as TooEarly
\* although it was a duplicate as well
C19_Witness ==
  /\ last.op = "submit_attestation" /\ last.result = "TooEarly"
  /\ \E m \in Markets :
       \A o \in OracleIds : IsRegisteredOracle(o) /\ Has(oracle.attestation, <<m, o>>)

\* C20: for a registered oracle and a registered market, submit_attestation
\* before resolution_time is rejected TooEarly and records nothing; at or after
\* resolution_time, with a valid outcome and no earlier attestation, it is
\* accepted and stores the vote, the count and an Attestation whose timestamp
\* is the ledger time of the call.
C20_TimeGuard ==
  [][last'.op = "submit_attestation" =>
       \A o \in OracleIds, m \in Markets, res \in Outcomes :
         (IsRegisteredOracle(o) /\ Has(oracle.mkt_res_time, m) /\ SubmitAttestation(o, m, res)) =>
           /\ now < oracle.mkt_res_time[m] =>
                last'.result = "TooEarly" /\ oracle' = oracle
           /\ (now >= oracle.mkt_res_time[m] /\ res \in {0, 1}
                 /\ ~Has(oracle.attestation, <<m, o>>)) =>
                /\ last'.result = "ok"
                /\ oracle'.attestation[<<m, o>>] =
                     [attestor |-> o, outcome |-> res, timestamp |-> now]
                /\ oracle'.vote[<<m, o>>] = res
                /\ get_attestation_counts(oracle', m)[2 - res]
                     = get_attestation_counts(oracle, m)[2 - res] + 1
           /\ last'.result = "ok" => now >= oracle.mkt_res_time[m]]_vars

\* C20 witness: an attestation was accepted at the very resolution time, after
\* the clock had moved
C20_Witness ==
  /\ last.op = "submit_attestation" /\ last.result = "ok"
  /\ now > 0
  /\ \E key \in DOMAIN oracle.attestation :
       /\ oracle.attestation[key].timestamp = now
       /\ oracle.mkt_res_time[key[1]] = now

\* C20 witness of the rejection: refused as too early with nothing stored
C20_WitnessTooEarly ==
  /\ last.op = "submit_attestation" /\ last.result = "TooEarly"
  /\ oracle.attestation = EmptyMap /\ oracle.vote = EmptyMap

\* C21: for the configured administrator, register_oracle fails LimitReached
\* when 10 oracles are already registered and AlreadyRegistered when the
\* identity is already present, both leaving the count and the registry as
\* they were; on success the new oracle is stored with accuracy 100, the
\* existing entries are untouched and the count rises by exactly 1.
C21_RegisterOracleOutcomes ==
  [][last'.op = "register_oracle" =>
       \A signer \in Admins, o \in RegistryOracles :
         (/\ Has(oracle.admin, "admin") /\ signer = oracle.admin["admin"]
          /\ RegisterOracle(signer, o, OracleName)) =>
           LET registered == Cardinality(DOMAIN oracle.oracles)
           IN /\ registered >= MaxOracles =>
                   last'.result = "LimitReached" /\ oracle' = oracle
              /\ (registered < MaxOracles /\ Has(oracle.oracles, o)) =>
                   last'.result = "AlreadyRegistered" /\ oracle' = oracle
              /\ last'.result = "ok" =>
                   /\ ~Has(oracle.oracles, o)
                   /\ oracle'.oracles[o].accuracy = InitialAccuracy
                   /\ oracle'.oracles[o].name = OracleName
                   /\ \A e \in DOMAIN oracle.oracles : oracle'.oracles[e] = oracle.oracles[e]
                   /\ oracle'.oracle_count["count"] = GetOr(oracle.oracle_count, "count", 0) + 1]_vars

\* C22: an accepted register_market(m, t) leaves resolution_time of m at t and
\* both attestation counters of m at zero, and the same call made again right
\* after it is accepted and leaves the Oracle state exactly as it is.
C22_RegisterMarketIdempotent ==
  [][(last'.op = "register_market" /\ last'.result = "ok") =>
       \A signer \in Admins, m \in Markets, rt \in ResolutionTimes :
         RegisterMarket(signer, m, rt) =>
           LET again == register_market(oracle', signer, m, rt)
           IN /\ oracle'.mkt_res_time[m] = rt
              /\ get_attestation_counts(oracle', m) = <<0, 0>>
              /\ ~again.panic
              /\ again.st = oracle']_vars

\* C22 witness: a market holding a NO attestation was registered again
C22_Witness ==
  /\ last.op = "register_market" /\ last.result = "ok"
  /\ \E m \in Markets :
       /\ Votes(m, 0) > 0
       /\ get_attestation_counts(oracle, m) = <<0, 0>>

\* is the principal the administrator initialize configured
IsConfiguredAdmin(signer) == Has(oracle.admin, "admin") /\ signer = oracle.admin["admin"]

\* C23: a register_oracle or register_market call authorized by anyone but the
\* administrator configured by initialize is rejected and changes no Oracle
\* state.
C23_AdminOnly ==
  [][last'.op \in {"register_oracle", "register_market"} =>
       \A signer \in Admins :
         (/\ ~IsConfiguredAdmin(signer)
          /\ \/ \E o \in OracleIds : RegisterOracle(signer, o, OracleName)
             \/ \E m \in Markets, rt \in ResolutionTimes : RegisterMarket(signer, m, rt)) =>
           last'.result # "ok" /\ oracle' = oracle]_vars

\* C23 witness: with an administrator configured and oracles and a market
\* registered, a call by another principal was refused
C23_Witness ==
  /\ last.op \in {"register_oracle", "register_market"}
  /\ last.result = "Unauthorized"
  /\ Has(oracle.admin, "admin")
  /\ oracle.oracles # EmptyMap /\ oracle.mkt_res_time # EmptyMap

\* C24: from a state where both outcomes of a market hold the same number of
\* votes, at or above the threshold, check_consensus returns (false, 0), and
\* one further accepted attestation for outcome X makes it return (true, X).
C24_TieCanProgress ==
  [][(last'.op = "submit_attestation" /\ last'.result = "ok") =>
       \A ballot \in TieBallots, m \in Markets :
         LET o == ballot[1]
             X == ballot[2]
         IN
         (/\ Votes(m, 1) = Votes(m, 0)
          /\ Votes(m, 1) >= ConfiguredThreshold
          /\ SubmitAttestation(o, m, X)) =>
           /\ check_consensus(oracle, m) = <<FALSE, 0>>
           /\ check_consensus(oracle', m) = <<TRUE, X>>]_vars

\* C24 witness: with threshold 2, the fifth attestation broke a 2-vs-2 split
\* and the side it joined is reported as the consensus
C24_Witness ==
  /\ last.op = "submit_attestation" /\ last.result = "ok"
  /\ ConfiguredThreshold = 2
  /\ \E m \in Markets :
       /\ Len(oracle.voters[m]) = 5
       /\ LET X == oracle.vote[<<m, oracle.voters[m][5]>>]
          IN /\ Votes(m, X) = 3 /\ Votes(m, 1 - X) = 2
             /\ check_consensus(oracle, m) = <<TRUE, X>>

\* the entries of a keyed map that belong to a market, the market id being the
\* component of the key at the given position
EntriesOf(f, position, market_id) ==
  [key \in {k \in DOMAIN f : k[position] = market_id} |-> f[key]]

\* the value stored under a market id, or none
EntryOf(f, market_id) == IF Has(f, market_id) THEN <<f[market_id]>> ELSE <<>>

\* everything both contracts store for one market id
MarketView(market_id) ==
  [pool |-> EntryOf(pools, market_id),
   lp_tokens |-> EntriesOf(lp_tokens, 1, market_id),
   user_shares |-> EntriesOf(user_shares, 2, market_id),
   trade_count |-> EntryOf(trade_count, market_id),
   trades |-> EntriesOf(trades, 1, market_id),
   mkt_res_time |-> EntryOf(oracle.mkt_res_time, market_id),
   attest_yes |-> EntryOf(oracle.attest_yes, market_id),
   attest_no |-> EntryOf(oracle.attest_no, market_id),
   voters |-> EntryOf(oracle.voters, market_id),
   vote |-> EntriesOf(oracle.vote, 1, market_id),
   attestation |-> EntriesOf(oracle.attestation, 1, market_id)]

\* some call of a market-keyed operation on the market makes this step
OperationOn(market_id) ==
  \/ /\ last'.op = "create_pool"
     /\ \E a \in FrameAmounts : CreatePool(ScenarioProvider, market_id, a)
  \/ /\ last'.op = "buy_shares"
     /\ \E o \in {0, 1}, a \in FrameAmounts : BuyShares(ScenarioTrader, market_id, o, a, 0)
  \/ /\ last'.op = "add_liquidity"
     /\ \E a \in FrameAmounts : AddLiquidity(ScenarioProvider, market_id, a)
  \/ /\ last'.op = "remove_liquidity"
     /\ \E a \in FrameAmounts : RemoveLiquidity(ScenarioProvider, market_id, a)
  \/ /\ last'.op = "register_market"
     /\ RegisterMarket(ConsensusAdmin, market_id, 0)
  \/ /\ last'.op = "submit_attestation"
     /\ \E res \in {0, 1} : SubmitAttestation(FrameOracle, market_id, res)

\* C25: create_pool, buy_shares, add_liquidity, remove_liquidity,
\* register_market and submit_attestation on market id m leave everything
\* stored for every other market id as it was.
C25_OtherMarketsUntouched ==
  [][\A m \in FrameMarkets :
       OperationOn(m) =>
         \A other \in FrameMarkets \ {m} : MarketView(other)' = MarketView(other)]_vars

\* C25 witness: both markets hold a pool that was traded on and an
\* attestation, and they differ in reserves and in the outcome attested
C25_Witness ==
  /\ \A m \in FrameMarkets :
       /\ Has(pools, m) /\ GetOr(trade_count, m, 0) = 1
       /\ Has(oracle.attestation, <<m, FrameOracle>>)
  /\ pools["m1"] # pools["m2"]
  /\ oracle.vote[<<"m1", FrameOracle>>] # oracle.vote[<<"m2", FrameOracle>>]

\* C26: no step changes or deletes a stored trade record; a successful
\* buy_shares adds exactly one record, under an index above every index its
\* market has used, holding the buyer, the outcome, shares_out, the gross
\* amount, the fee and the ledger time; any other step adds none.
C26_TradesAppendOnly ==
  [][/\ \A key \in DOMAIN trades : Has(trades', key) /\ trades'[key] = trades[key]
     /\ (last'.op = "buy_shares" /\ last'.result = "ok") =>
          \E key \in (DOMAIN trades') \ (DOMAIN trades) :
            LET paid == balance'[AmmAddress] - balance[AmmAddress]
            IN /\ DOMAIN trades' = (DOMAIN trades) \cup {key}
               /\ \A old \in DOMAIN trades : old[1] = key[1] => old[2] < key[2]
               /\ balance'[trades'[key].buyer] = balance[trades'[key].buyer] - paid
               /\ trades'[key].amount = paid
               /\ trades'[key].fee = (paid * amm_cfg.trading_fee) \div BpsDenominator
               /\ trades'[key].shares_out = last'.ret[1]
               /\ trades'[key].outcome \in {0, 1}
               /\ GetOr(user_shares', <<trades'[key].buyer, key[1], trades'[key].outcome>>, 0)
                    = GetOr(user_shares, <<trades'[key].buyer, key[1], trades'[key].outcome>>, 0)
                      + last'.ret[1]
               /\ trades'[key].timestamp = now
     /\ ~(last'.op = "buy_shares" /\ last'.result = "ok") => trades' = trades]_vars

\* C26 witness: a market holds two trade records, the later one just written
C26_Witness ==
  /\ last.op = "buy_shares" /\ last.result = "ok"
  /\ \E m \in DOMAIN pools :
       /\ Has(trades, <<m, 1>>) /\ Has(trades, <<m, 2>>)
       /\ trades[<<m, 1>>] # trades[<<m, 2>>]
       /\ trades[<<m, 2>>].shares_out = last.ret[1]

\* C27: the stored k of every pool is yes_reserve * no_reserve.
C27_KIsProduct ==
  \A m \in DOMAIN pools : pools[m].k = pools[m].yes_reserve * pools[m].no_reserve

\* C27 witness: a pool that was seeded, added to, traded on and withdrawn from
\* holds unequal reserves and their product
C27_Witness ==
  /\ last.op = "remove_liquidity" /\ last.result = "ok"
  /\ \E m \in DOMAIN pools :
       /\ GetOr(trade_count, m, 0) = 1
       /\ pools[m].yes_reserve # pools[m].no_reserve
       /\ pools[m].k = pools[m].yes_reserve * pools[m].no_reserve
       /\ pools[m].k > 1

\* C28: no successful buy_shares takes a positive amount from the buyer and
\* returns shares_out = 0 (stated for pools whose reserves are both positive).
C28_NoZeroShareBuy ==
  [][(/\ last'.op = "buy_shares" /\ last'.result = "ok"
      /\ \A m \in DOMAIN pools : pools[m].yes_reserve > 0 /\ pools[m].no_reserve > 0
      /\ balance'[AmmAddress] > balance[AmmAddress]) =>
       last'.ret[1] > 0]_vars


(***************************************************************************)
(* Properties of the Treasury                                              *)
(***************************************************************************)
\* the stored ratios and a pool's balance
StoredRatios == treasury.distribution["distribution"]
PoolBalance(key) == GetOr(treasury.fees, key, 0)

\* C29: deposit_fees(source, amount) with amount > 0, signed by an initialized Treasury's
\* funded source, succeeds; a successful deposit moves exactly amount from the source to the
\* Treasury, adds floor(amount * platform / 100) to the platform pool,
\* floor(amount * leaderboard / 100) to the leaderboard pool, the remainder to the creator pool
\* and amount to total_fees, so that the three increments sum to amount; an amount <= 0 is
\* rejected, and a rejected deposit changes nothing.
C29_DepositSplit ==
  [][\A signer \in Users, source \in Users, amount \in FeeAmounts :
       (/\ last'.op = "deposit_fees"
        /\ DepositFees(signer, source, amount))
       => LET platform_added == PoolBalance("platform_fees")' - PoolBalance("platform_fees")
              leaderboard_added ==
                PoolBalance("leaderboard_fees")' - PoolBalance("leaderboard_fees")
              creator_added == PoolBalance("creator_fees")' - PoolBalance("creator_fees")
          IN /\ (amount <= 0 => last'.result # "ok")
             /\ (/\ amount > 0
                 /\ signer = source
                 /\ Has(treasury.admin, "admin")
                 /\ treasury.usdc[source] >= amount) => last'.result = "ok"
             /\ last'.result # "ok" => treasury' = treasury
             /\ last'.result = "ok" =>
                  /\ treasury'.usdc =
                       [treasury.usdc EXCEPT ![source] = @ - amount,
                                             ![TreasuryAddress] = @ + amount]
                  /\ platform_added = (amount * StoredRatios.platform) \div PctDenominator
                  /\ leaderboard_added =
                       (amount * StoredRatios.leaderboard) \div PctDenominator
                  /\ creator_added = amount - platform_added - leaderboard_added
                  /\ platform_added + leaderboard_added + creator_added = amount
                  /\ PoolBalance("total_fees")' = PoolBalance("total_fees") + amount
                  /\ treasury'.distribution = treasury.distribution
                  /\ treasury'.admin = treasury.admin]_vars

\* a deposit of 3 under the default ratios: 1 to the platform pool, nothing to the
\* leaderboard pool and the remainder 2 to the creator pool
C29_Witness ==
  /\ last.op = "deposit_fees"
  /\ last.result = "ok"
  /\ StoredRatios.leaderboard = DefaultLeaderboardPct
  /\ treasury.usdc[TreasuryAddress] = MaxFee
  /\ PoolBalance("total_fees") = MaxFee
  /\ PoolBalance("leaderboard_fees") = 0
  /\ PoolBalance("creator_fees") > PoolBalance("platform_fees")
  /\ PoolBalance("platform_fees") > 0

\* a deposit of an amount that is not positive, refused by an initialized Treasury
C29_WitnessRejected ==
  /\ last.op = "deposit_fees"
  /\ last.result = "InvalidAmount"
  /\ Has(treasury.admin, "admin")


\* whether three ratios sum to 100; they are naturals, so no addend of such a sum is above 100
SumsToHundred(platform, leaderboard, creator) ==
  /\ platform <= PctDenominator
  /\ leaderboard <= PctDenominator
  /\ creator <= PctDenominator
  /\ platform + leaderboard + creator = PctDenominator

\* the stored ratios, once present, sum to 100
RatiosSumToHundred ==
  Has(treasury.distribution, "distribution") =>
    SumsToHundred(StoredRatios.platform, StoredRatios.leaderboard, StoredRatios.creator)

\* C30: in every reachable state the stored fee ratios sum to 100; initialize, where it
\* succeeds, stores 50/30/20; set_fee_distribution refuses every triple whose sum is not 100,
\* which leaves the stored ratios as they were, and stores the triple it accepts.
C30_RatiosSumToHundred ==
  /\ RatiosSumToHundred
  /\ \A signer \in Users :
       LET r == Treasury_initialize(treasury, signer, TreasuryAdmin)
       IN ~r.panic => r.st.distribution["distribution"] =
                        [platform |-> DefaultPlatformPct,
                         leaderboard |-> DefaultLeaderboardPct,
                         creator |-> DefaultCreatorPct]
  /\ \A signer \in Users, p \in FeePcts, l \in FeePcts, c \in FeePcts :
       LET r == set_fee_distribution(treasury, signer, p, l, c)
       IN /\ ~SumsToHundred(p, l, c) =>
               /\ r.panic
               /\ Commit(treasury, r).distribution = treasury.distribution
          /\ ~r.panic => Commit(treasury, r).distribution["distribution"] =
                           [platform |-> p, leaderboard |-> l, creator |-> c]

\* the administrator replaced the default ratios by another triple
C30_Witness ==
  /\ last.op = "set_fee_distribution"
  /\ last.result = "ok"
  /\ StoredRatios.platform # DefaultPlatformPct

\* a triple whose sum is not 100, refused
C30_WitnessRejected ==
  /\ last.op = "set_fee_distribution"
  /\ last.result = "InvalidRatios"
  /\ Has(treasury.distribution, "distribution")

\* a triple whose sum leaves the u32 range, refused
C30_WitnessOverflow ==
  /\ last.op = "set_fee_distribution"
  /\ last.result = "Overflow"


\* the sum of floor(pool * share / 100) over the entries of a share list that name a recipient
RECURSIVE RewardOf(_, _, _)
RewardOf(recipient, pool, distributions) ==
  IF distributions = <<>> THEN 0
  ELSE (IF distributions[1][1] = recipient
        THEN (pool * distributions[1][2]) \div PctDenominator ELSE 0)
       + RewardOf(recipient, pool, Tail(distributions))

\* the sum of the shares of a share list
RECURSIVE SharesOf(_)
SharesOf(distributions) ==
  IF distributions = <<>> THEN 0 ELSE distributions[1][2] + SharesOf(Tail(distributions))

\* C31: distribute_leaderboard_rewards succeeds only when signed by the stored admin, with
\* shares totalling 100 and a leaderboard pool > 0; it then pays every recipient
\* floor(pool * share / 100) per entry out of the Treasury's balance, at most the pool in
\* total, sets the leaderboard pool to 0 and leaves the other pools and the ratios alone; a
\* rejected call changes neither a pool nor a token balance.
C31_LeaderboardDistribution ==
  [][\A signer \in Users, d \in ShareLists :
       (/\ last'.op = "distribute_leaderboard_rewards"
        /\ DistributeLeaderboardRewards(signer, signer, d))
       => LET pool == PoolBalance("leaderboard_fees")
              paid == treasury.usdc[TreasuryAddress] - treasury'.usdc[TreasuryAddress]
          IN /\ last'.result # "ok" => treasury' = treasury
             /\ last'.result = "ok" =>
                  /\ Has(treasury.admin, "admin")
                  /\ signer = treasury.admin["admin"]
                  /\ SharesOf(d) = PctDenominator
                  /\ pool > 0
                  /\ \A a \in Users :
                       treasury'.usdc[a] = treasury.usdc[a] + RewardOf(a, pool, d)
                  /\ paid = RewardOf(TreasuryAdmin, pool, d) + RewardOf(TreasurySource, pool, d)
                  /\ paid <= pool
                  /\ treasury'.fees = [treasury.fees EXCEPT !["leaderboard_fees"] = 0]
                  /\ treasury'.distribution = treasury.distribution
                  /\ treasury'.admin = treasury.admin]_vars

\* a pool of 3 shared in two halves: each recipient is paid 1 and the pool is reset
C31_Witness ==
  /\ last.op = "distribute_leaderboard_rewards"
  /\ last.result = "ok"
  /\ PoolBalance("leaderboard_fees") = 0
  /\ PoolBalance("total_fees") = MaxFee
  /\ treasury.usdc[TreasuryAdmin] = TreasuryFunds + 1
  /\ treasury.usdc[TreasuryAddress] = 1

\* the three refusals: a caller who is not the admin, shares that do not total 100, an
\* empty pool
C31_WitnessNotAdmin ==
  /\ last.op = "distribute_leaderboard_rewards"
  /\ last.result = "Unauthorized"
  /\ PoolBalance("leaderboard_fees") > 0

C31_WitnessInvalidShares ==
  /\ last.op = "distribute_leaderboard_rewards"
  /\ last.result = "InvalidShares"
  /\ PoolBalance("leaderboard_fees") > 0

C31_WitnessEmptyPool ==
  /\ last.op = "distribute_leaderboard_rewards"
  /\ last.result = "NoFunds"


(***************************************************************************)
(* Properties of the MarketFactory                                         *)
(***************************************************************************)
MarketCount == GetOr(factory.market_count, "market_count", 0)

\* C32: every successful create_market increases market_count by exactly 1, registers one
\* market and moves exactly the creation fee of 10_000_000 from the creator to the Treasury,
\* raising the Treasury's total_fees by as much; a call with closing_time <= now or
\* closing_time >= resolution_time is rejected, and a rejected call registers no market,
\* leaves the count and charges no fee.
C32_CreateMarket ==
  [][\A signer \in Users, creator \in Users, c \in ClosingTimes, r \in FactoryResolutionTimes :
       (/\ last'.op = "create_market"
        /\ CreateMarket(signer, creator, c, r))
       => /\ (c <= now \/ c >= r) => last'.result # "ok"
          /\ last'.result # "ok" => factory' = factory /\ treasury' = treasury
          /\ last'.result = "ok" =>
               /\ MarketCount' = MarketCount + 1
               /\ Cardinality(DOMAIN factory'.markets) = Cardinality(DOMAIN factory.markets) + 1
               /\ treasury'.usdc =
                    [treasury.usdc EXCEPT ![creator] = @ - CreationFee,
                                          ![TreasuryAddress] = @ + CreationFee]
               /\ PoolBalance("total_fees")' = PoolBalance("total_fees") + CreationFee
               /\ PoolBalance("platform_fees")' + PoolBalance("leaderboard_fees")'
                    + PoolBalance("creator_fees")'
                  = PoolBalance("platform_fees") + PoolBalance("leaderboard_fees")
                    + PoolBalance("creator_fees") + CreationFee]_vars

\* a second market was created and paid for
C32_Witness ==
  /\ last.op = "create_market"
  /\ last.result = "ok"
  /\ MarketCount = 2
  /\ PoolBalance("total_fees") = 2 * CreationFee
  /\ treasury.usdc[TreasuryAddress] = 2 * CreationFee

\* a creation refused for its times by an initialized factory whose creators have funds
C32_WitnessInvalidTimestamps ==
  /\ last.op = "create_market"
  /\ last.result = "InvalidTimestamps"
  /\ Has(factory.admin, "admin")
  /\ Has(treasury.admin, "admin")
  /\ now > 0


(***************************************************************************)
(* Further properties of the OracleManager                                 *)
(***************************************************************************)
\* C33: the winner reported by check_consensus is final: under a positive threshold, if
\* check_consensus answers (true, X) for a market before a further attestation is submitted,
\* it answers (true, X) after it.
C33_WinnerStable ==
  [][\A m \in Markets, X \in {0, 1} :
       (/\ last'.op = "submit_attestation"
        /\ GetOr(oracle.required_consensus, "threshold", 0) > 0
        /\ check_consensus(oracle, m) = <<TRUE, X>>)
       => check_consensus(oracle', m) = <<TRUE, X>>]_vars


(***************************************************************************)
(* Further properties of the AMM                                           *)
(***************************************************************************)
\* the sum of yes_reserve + no_reserve over the pools of a set of markets
RECURSIVE ReservesOf(_)
ReservesOf(markets) ==
  IF markets = {} THEN 0
  ELSE LET m == CHOOSE x \in markets : TRUE
       IN pools[m].yes_reserve + pools[m].no_reserve + ReservesOf(markets \ {m})

C35_PoolsNeverEmpty ==
  \A m \in DOMAIN pools :
    /\ pools[m].lp_supply > 0
    /\ pools[m].yes_reserve + pools[m].no_reserve > 0


\* removals have brought a pool down to its last LP token
C35_Witness ==
  /\ last.op = "remove_liquidity"
  /\ last.result = "ok"
  /\ \E m \in DOMAIN pools : pools[m].lp_supply = 1

\* the removal of all that is left was refused
C35_WitnessLastToken ==
  /\ last.op = "remove_liquidity"
  /\ last.result \in {"PoolDrainForbidden", "AmountTooSmall"}
  /\ \E m \in DOMAIN pools : pools[m].lp_supply = 1 /\ \E u \in Users :
       GetOr(lp_tokens, <<m, u>>, 0) = 1


(***************************************************************************)
(* Initialization                                                          *)
(***************************************************************************)
\* C36: initialization takes effect at most once: an initialize call on an OracleManager that
\* already has an admin leaves the stored admin, required_consensus and oracle_count as they
\* were, and an initialize call on an initialized AMM leaves its configuration as it was.
C36_InitializeOnce ==
  [][/\ (last'.op = "oracle_initialize" /\ Has(oracle.admin, "admin")) =>
          /\ oracle'.admin = oracle.admin
          /\ oracle'.required_consensus = oracle.required_consensus
          /\ oracle'.oracle_count = oracle.oracle_count
     /\ (last'.op = "initialize" /\ amm_cfg.initialized) => amm_cfg' = amm_cfg]_vars


(***************************************************************************)
(* Invariants of the OracleManager                                         *)
(***************************************************************************)
\* the voter list stored for a market
VotersOf(m) == GetOr(oracle.voters, m, <<>>)

\* the market ids under which a voter list, a vote or an attestation is stored
VotedMarkets ==
  DOMAIN oracle.voters \cup {key[1] : key \in DOMAIN oracle.vote \cup DOMAIN oracle.attestation}

\* the oracle ids that appear in a vote key, an attestation key or a voter list
VotingOracles ==
  {key[2] : key \in DOMAIN oracle.vote \cup DOMAIN oracle.attestation}
    \cup UNION {{VotersOf(m)[i] : i \in 1..Len(VotersOf(m))} : m \in DOMAIN oracle.voters}

\* C37: for every market the voter list names each oracle at most once; an oracle is in the
\* list if and only if a vote and an Attestation are stored for (market, oracle); the stored
\* vote is the Attestation's outcome; every listed oracle is registered; hence the tally of
\* check_consensus has one vote per attesting oracle.
C37_VoterListSound ==
  \A m \in VotedMarkets :
    LET voters == VotersOf(m)
        listed == {voters[i] : i \in 1..Len(voters)}
    IN /\ \A i \in 1..Len(voters), j \in 1..Len(voters) : voters[i] = voters[j] => i = j
       /\ \A o \in VotingOracles :
            /\ o \in listed <=> Has(oracle.vote, <<m, o>>)
            /\ o \in listed <=> Has(oracle.attestation, <<m, o>>)
            /\ o \in listed =>
                 /\ oracle.vote[<<m, o>>] = oracle.attestation[<<m, o>>].outcome
                 /\ oracle.attestation[<<m, o>>].attestor = o
                 /\ Has(oracle.oracles, o) /\ oracle.oracles[o].registered
       /\ LET votes == tally_votes(oracle, m, voters)
          IN votes[1] + votes[2] = Cardinality(listed)

\* two oracles are in a market's list and a second attestation of one of them was refused
C37_Witness ==
  /\ last.op = "submit_attestation"
  /\ last.result = "DuplicateAttestation"
  /\ \E m \in DOMAIN oracle.voters : Len(VotersOf(m)) = 2


\* C38: every stored Attestation of a market has a timestamp that is not before the
\* resolution_time currently stored for that market.
C38_AttestedAfterResolution ==
  \A key \in DOMAIN oracle.attestation :
    /\ Has(oracle.mkt_res_time, key[1])
    /\ oracle.attestation[key].timestamp >= oracle.mkt_res_time[key[1]]


(***************************************************************************)
(* The liquidity cap                                                       *)
(***************************************************************************)
\* C39: on an initialized AMM every pool satisfies
\* yes_reserve + no_reserve <= max_liquidity_cap.
C39_CapBoundsEveryPool ==
  amm_cfg.initialized =>
    \A m \in DOMAIN pools :
      pools[m].yes_reserve + pools[m].no_reserve <= amm_cfg.max_liquidity_cap


(***************************************************************************)
(* Treasury solvency                                                       *)
(***************************************************************************)
\* C40: the Treasury's token balance is at least
\* platform_fees + leaderboard_fees + creator_fees.
C40_TreasurySolvent ==
  treasury.usdc[TreasuryAddress] >=
    PoolBalance("platform_fees") + PoolBalance("leaderboard_fees") + PoolBalance("creator_fees")

====
